---- MODULE Spec2Model ----
(***************************************************************************)
(* The environment-resolution and synchronization core of uv:               *)
(*   crates/uv/src/commands/project/mod.rs  (update_environment,            *)
(*                                           sync_environment)              *)
(*   crates/uv/src/commands/tool/run.rs     (get_or_create_environment)     *)
(*                                                                         *)
(*                                           sync_environment, discover,    *)
(*                                           get_or_init_environment)       *)
(*   crates/uv/src/commands/tool/run.rs     (run, parse_target)             *)
(*                                                                         *)
(* The project pipeline (SpecProject), the tool-run pipeline (SpecTool),    *)
(* interpreter discovery (SpecDiscover) and the tool command (SpecRun) work *)
(* over disjoint state; each specification leaves the other commands'       *)
(* variables at their initial value.                                        *)
(***************************************************************************)
EXTENDS Integers, Sequences, FiniteSets

(***************************************************************************)
(* Bounds of the project pipeline.                                          *)
(***************************************************************************)
NumPkgs == 2
MaxVersion == 2
MaxReqs == 1

Pkgs == 1..NumPkgs
Versions == 1..MaxVersion

VARIABLES
  installed,      \* the environment's site-packages on disk: package -> version, 0 = absent
  pc,             \* position of the running project command
  op,             \* "none" | "update" | "sync"
  spec,           \* RequirementsSpecification: requirements, source_trees
  settings,       \* reinstall and upgrade policy of the call
  site_packages,  \* the SitePackages snapshot taken at the start of the call
  resolution,     \* the Resolution in use, <<>> while there is none
  pending,        \* packages the installer still has to modify
  modified,       \* packages the installer has touched in this call
  calls,          \* collaborator calls of this call, in order
  result,         \* "none" | "Ok" | the error the call returned
  check,          \* what the satisfaction check of this call returned, "none" if not consulted
  alreadySatisfied, \* history: the environment met the requirements when the call began
  prevSync,       \* Resolution of the immediately preceding successful sync_environment
  second,         \* this sync_environment repeats the preceding successful one
  prevInterrupted, \* the immediately preceding sync_environment whose installer
                  \* stopped part-way: its Resolution, and the packages it had modified
  retry,          \* "none" | this sync_environment repeats the preceding interrupted
                  \* one, which had modified nothing ("untouched") or something ("partial")
  resolver_call   \* the arguments of this call's pip::operations::resolve

projectVars == <<installed, pc, op, spec, settings, site_packages, resolution,
                 pending, modified, calls, result, check, alreadySatisfied,
                 prevSync, second, prevInterrupted, retry, resolver_call>>

VARIABLES
  tpc,           \* position of each invocation in get_or_create_environment
  req,           \* its arguments: from, with, python, isolated
  interpreter,   \* the interpreter find_or_fetch gave it, 0 = none yet
  requirements,  \* its resolved from+with requirements, in order
  existing,      \* the registry environment it is looking at, <<>> = none
  tresult,       \* what it returned
  tcalls,        \* its collaborator calls, in order
  net,           \* the kinds of network request it has made
  lock,          \* holder of the installed-tools advisory lock, 0 = free
  registry,      \* installed tools: tool package -> environment, <<>> = not installed
  cache,         \* ephemeral environment cache entries: fingerprint, and the request that built it
  runs           \* invocations started so far

toolVars == <<tpc, req, interpreter, requirements, existing, tresult, tcalls, net,
              lock, registry, cache, runs>>

VARIABLES
  dpc,            \* position in get_or_init_environment / FoundInterpreter::discover
  python_arg,     \* the explicit Python request of the call
  workspace,      \* the workspace on disk: requires_python, version_file, venv
  python_request, \* the effective request discover computed
  dinterpreter,   \* version of the interpreter find_or_fetch gave, 0 = none
  found,          \* what discover returned
  dresult,        \* what get_or_init_environment returned
  dcalls          \* collaborator calls and user output of the call, in order

discoverVars == <<dpc, python_arg, workspace, python_request, dinterpreter, found, dresult,
                  dcalls>>

VARIABLES
  rpc,            \* position in run
  command,        \* the external command: target and whether it is valid UTF-8
  from_arg,       \* the --from option of the call
  executable,     \* the command name run will spawn
  requirement,    \* the requirement string handed to get_or_create_environment
  child,          \* the child process: "none" | "running" | how it exited
  rresult,        \* what run returned
  rcalls          \* collaborator calls and user output of the call, in order

runVars == <<rpc, command, from_arg, executable, requirement, child, rresult, rcalls>>

VARIABLES
  lpc,              \* position in the launch of the child
  environ,          \* the process environment run inherits: PATH, PYTHONPATH
  tool_environment, \* the environment the tool runs in: scripts, site_packages
  invocation,       \* the ToolRunCommand the user typed
  process_env,      \* the variables set on the child's Command
  matching,         \* what matching_packages returned
  warnings,         \* the warnings given to the user, in order
  spawned,          \* "none" | how process.spawn() ended
  lresult           \* "none" | the error run returned

launchVars == <<lpc, environ, tool_environment, invocation, process_env, matching,
                warnings, spawned, lresult>>

vars == <<projectVars, toolVars, discoverVars, runVars, launchVars>>

\* What each command leaves alone.
exceptProject == <<toolVars, discoverVars, runVars, launchVars>>
exceptTool == <<projectVars, discoverVars, runVars, launchVars>>
exceptDiscover == <<projectVars, toolVars, runVars, launchVars>>
exceptRun == <<projectVars, toolVars, discoverVars, launchVars>>
exceptLaunch == <<projectVars, toolVars, discoverVars, runVars>>

NoResolution == <<>>
NoSnapshot == <<>>
\* EmptyInstalledPackages: an installed-package source that holds nothing.
EmptyInstalledPackages == [p \in Pkgs |-> 0]
\* No sync_environment was interrupted just before.
NoInterrupted == [resolution |-> NoResolution, applied |-> {}]
\* No call of the resolver was made.
NoResolverCall == [installed_packages |-> NoSnapshot, reinstall |-> "none", upgrade |-> "none"]

\* An environment's installed set / a Resolution: package -> pinned version, 0 = absent.
PackageSets == [Pkgs -> 0..MaxVersion]

\* A requirement: a package, and a pinned version (0 = any version).
Requirements == [pkg : Pkgs, ver : 0..MaxVersion]

RequirementSets == {rs \in SUBSET Requirements : Cardinality(rs) <= MaxReqs}

NoSpec == [requirements |-> {}, source_trees |-> FALSE]
NoSettings == [reinstall |-> "None", upgrade |-> "None"]

\* Package metadata: version 2 and later of package p depends on package p+1.
Deps(p, v) ==
  IF p < NumPkgs /\ v >= 2 THEN {[pkg |-> p + 1, ver |-> 0]} ELSE {}

\* One requirement against an installed set: present, at the pinned version if pinned.
Satisfied(r, inst) ==
  /\ inst[r.pkg] # 0
  /\ r.ver = 0 \/ inst[r.pkg] = r.ver

\* The requirements reached by walking the installed distributions' own requirements.
RECURSIVE Closure(_, _, _)
Closure(reqs, inst, fuel) ==
  LET next == reqs \cup UNION {Deps(r.pkg, inst[r.pkg]) : r \in {q \in reqs : Satisfied(q, inst)}}
  IN IF next = reqs \/ fuel = 0 THEN reqs ELSE Closure(next, inst, fuel - 1)

\* SitePackages::satisfies: Fresh when every requirement of the transitive walk is
\* met by the installed set, Unsatisfied at the first one that is not.
Satisfies(inst, reqs) ==
  IF \A r \in Closure(reqs, inst, NumPkgs) : Satisfied(r, inst)
  THEN "Fresh" ELSE "Unsatisfied"

\* A Resolution is transitively consistent: every pinned package's requirements are pinned.
Consistent(R) ==
  \A p \in Pkgs : R[p] # 0 => \A d \in Deps(p, R[p]) : Satisfied(d, R)

Resolutions == {R \in PackageSets : Consistent(R)}

\* The packages a Resolution of reqs needs: those its transitive walk reaches.
Needed(R, reqs) == {r.pkg : r \in Closure(reqs, R, NumPkgs)}

\* pip::operations::resolve: any consistent pin set that meets the requirements; with
\* no source trees it pins nothing beyond the requirements' closure, with source trees
\* the trees' own (unlisted) requirements may pin more.
Resolve(reqs, source_trees) ==
  {R \in Resolutions :
     /\ Satisfies(R, reqs) = "Fresh"
     /\ source_trees \/ \A p \in Pkgs : R[p] # 0 => p \in Needed(R, reqs)}

\* pip::operations::install's plan. Exact: everything that differs from the Resolution
\* is modified (extraneous removed, missing installed, other versions replaced);
\* Sufficient leaves extraneous packages alone. A reinstall policy re-installs the
\* Resolution's packages even where the installed version already matches.
InstallPlan(site, R, modifications, reinstall) ==
  {p \in Pkgs :
     \/ site[p] # R[p] /\ (R[p] # 0 \/ modifications = "Exact")
     \/ reinstall # "None" /\ R[p] # 0}

(***************************************************************************)
(* The project pipeline: update_environment and sync_environment.           *)
(***************************************************************************)
InitProject ==
  /\ installed \in PackageSets
  /\ pc = "idle"
  /\ op = "none"
  /\ spec = NoSpec
  /\ settings = NoSettings
  /\ site_packages = NoSnapshot
  /\ resolution = NoResolution
  /\ pending = {}
  /\ modified = {}
  /\ calls = <<>>
  /\ result = "none"
  /\ check = "none"
  /\ alreadySatisfied = FALSE
  /\ prevSync = NoResolution
  /\ second = FALSE
  /\ prevInterrupted = NoInterrupted
  /\ retry = "none"
  /\ resolver_call = NoResolverCall

\* A call ends: with Ok(venv) or with the first error of a collaborator.
Finish(res) ==
  /\ pc' = "done"
  /\ result' = res

Called(c) == \E i \in 1..Len(calls) : calls[i] = c

\* update_environment, entry: the SitePackages snapshot of the environment.
UpdateBegin(reqs, src, re, up) ==
  /\ pc = "idle"
  /\ op' = "update"
  /\ spec' = [requirements |-> reqs, source_trees |-> src]
  /\ settings' = [reinstall |-> re, upgrade |-> up]
  /\ site_packages' = installed
  /\ calls' = <<"site_packages">>
  /\ pc' = "check"
  /\ alreadySatisfied' = (Satisfies(installed, reqs) = "Fresh")
  /\ prevSync' = NoResolution
  /\ prevInterrupted' = NoInterrupted
  /\ UNCHANGED <<installed, resolution, pending, modified, result, check, second, retry>>
  /\ UNCHANGED resolver_call
  /\ UNCHANGED exceptProject

\* SitePackages::from_environment(&venv)? fails.
UpdateSitePackagesError(reqs, src, re, up) ==
  /\ pc = "idle"
  /\ op' = "update"
  /\ spec' = [requirements |-> reqs, source_trees |-> src]
  /\ settings' = [reinstall |-> re, upgrade |-> up]
  /\ calls' = <<"site_packages">>
  /\ prevSync' = NoResolution
  /\ prevInterrupted' = NoInterrupted
  /\ Finish("Err_site_packages")
  /\ UNCHANGED <<installed, site_packages, resolution, pending, modified, check,
                 alreadySatisfied, second, retry>>
  /\ UNCHANGED resolver_call
  /\ UNCHANGED exceptProject

\* Faulty variant of SatisfactionCheckApplies: an upgrade request does not disable the check.
SatisfactionCheckIgnoresUpgrade(sp, st) ==
  /\ ~sp.source_trees
  /\ st.reinstall = "None"

\* The condition under which update_environment consults the satisfaction check.
SatisfactionCheckApplies(sp, st) ==
  /\ ~sp.source_trees
  /\ st.reinstall = "None"
  /\ st.upgrade = "None"

\* Faulty variant of UpdateFresh: Fresh is logged but the call goes on to resolve.
UpdateFreshFallsThrough ==
  /\ pc = "check"
  /\ SatisfactionCheckApplies(spec, settings)
  /\ Satisfies(site_packages, spec.requirements) = "Fresh"
  /\ calls' = Append(calls, "satisfies")
  /\ check' = "Fresh"
  /\ pc' = "tags"
  /\ UNCHANGED <<installed, op, spec, settings, site_packages, resolution, pending,
                 modified, result, prevSync, prevInterrupted, second, retry, alreadySatisfied>>
  /\ UNCHANGED resolver_call
  /\ UNCHANGED exceptProject

\* SatisfiesResult::Fresh: the requirements are already satisfied, return the venv.
UpdateFresh ==
  /\ pc = "check"
  /\ SatisfactionCheckApplies(spec, settings)
  /\ Satisfies(site_packages, spec.requirements) = "Fresh"
  /\ calls' = Append(calls, "satisfies")
  /\ check' = "Fresh"
  /\ Finish("Ok")
  /\ UNCHANGED <<installed, op, spec, settings, site_packages, resolution, pending,
                 modified, prevSync, prevInterrupted, second, retry, alreadySatisfied>>
  /\ UNCHANGED resolver_call
  /\ UNCHANGED exceptProject

\* SatisfiesResult::Unsatisfied: fall through to resolution.
UpdateUnsatisfied ==
  /\ pc = "check"
  /\ SatisfactionCheckApplies(spec, settings)
  /\ Satisfies(site_packages, spec.requirements) = "Unsatisfied"
  /\ calls' = Append(calls, "satisfies")
  /\ check' = "Unsatisfied"
  /\ pc' = "tags"
  /\ UNCHANGED <<installed, op, spec, settings, site_packages, resolution, pending,
                 modified, result, prevSync, prevInterrupted, second, retry, alreadySatisfied>>
  /\ UNCHANGED resolver_call
  /\ UNCHANGED exceptProject

\* site_packages.satisfies(..)? fails.
UpdateSatisfiesError ==
  /\ pc = "check"
  /\ SatisfactionCheckApplies(spec, settings)
  /\ calls' = Append(calls, "satisfies")
  /\ check' = "Err"
  /\ Finish("Err_satisfies")
  /\ UNCHANGED <<installed, op, spec, settings, site_packages, resolution, pending,
                 modified, prevSync, prevInterrupted, second, retry, alreadySatisfied>>
  /\ UNCHANGED resolver_call
  /\ UNCHANGED exceptProject

\* Source trees, a reinstall or an upgrade: the satisfaction check is not consulted.
UpdateCheckSkipped ==
  /\ pc = "check"
  /\ ~SatisfactionCheckApplies(spec, settings)
  /\ pc' = "tags"
  /\ UNCHANGED <<installed, op, spec, settings, site_packages, resolution, pending,
                 modified, calls, result, prevSync, prevInterrupted, second, retry, check, alreadySatisfied>>
  /\ UNCHANGED resolver_call
  /\ UNCHANGED exceptProject

\* venv.interpreter().tags()?
UpdateTags ==
  /\ pc = "tags" /\ op = "update"
  /\ \/ pc' = "fetch" /\ UNCHANGED result
     \/ Finish("Err_tags")
  /\ UNCHANGED <<installed, op, spec, settings, site_packages, resolution, pending,
                 modified, calls, prevSync, prevInterrupted, second, retry, check, alreadySatisfied>>
  /\ UNCHANGED resolver_call
  /\ UNCHANGED exceptProject

\* Faulty variant of UpdateFlatIndex: a failed fetch is tried once more.
UpdateFlatIndexRetried ==
  /\ pc = "fetch" /\ op = "update"
  /\ calls' = Append(calls, "flat_index")
  /\ \/ pc' = "resolve" /\ UNCHANGED result
     \/ ~Called("flat_index") /\ UNCHANGED <<pc, result>>
     \/ Called("flat_index") /\ Finish("Err_flat_index")
  /\ UNCHANGED <<installed, op, spec, settings, site_packages, resolution, pending,
                 modified, prevSync, prevInterrupted, second, retry, check,
                 alreadySatisfied>>
  /\ UNCHANGED resolver_call
  /\ UNCHANGED exceptProject

\* client.fetch(index_locations.flat_index()).await?
UpdateFlatIndex ==
  /\ pc = "fetch" /\ op = "update"
  /\ calls' = Append(calls, "flat_index")
  /\ \/ pc' = "resolve" /\ UNCHANGED result
     \/ Finish("Err_flat_index")
  /\ UNCHANGED <<installed, op, spec, settings, site_packages, resolution, pending,
                 modified, prevSync, prevInterrupted, second, retry, check, alreadySatisfied>>
  /\ UNCHANGED resolver_call
  /\ UNCHANGED exceptProject

\* pip::operations::resolve(spec.requirements, .., site_packages.clone(), ..): the
\* requirements are moved into the resolver, which returns a Resolution or an error.
UpdateResolve ==
  /\ pc = "resolve" /\ op = "update"
  /\ calls' = Append(calls, "resolve")
  /\ resolver_call' = [installed_packages |-> site_packages,
                       reinstall |-> settings.reinstall,
                       upgrade |-> settings.upgrade]
  /\ \/ \E R \in Resolve(spec.requirements, spec.source_trees) :
          /\ resolution' = R
          /\ pc' = "install"
          /\ UNCHANGED result
     \/ Finish("Err_resolve") /\ UNCHANGED resolution
  /\ spec' = [spec EXCEPT !.requirements = {}]
  /\ UNCHANGED <<installed, op, settings, site_packages, pending, modified,
                 prevSync, prevInterrupted, second, retry, check, alreadySatisfied>>
  /\ UNCHANGED exceptProject

\* Faulty variant of UpdateModifications: extraneous packages are left installed.
UpdateModificationsSufficient == "Sufficient"

\* The modifications update_environment asks the installer for.
UpdateModifications == "Exact"

\* Faulty variant of UpdateInstall: the diagnostics are emitted before the installer runs.
UpdateInstallDiagnosesFirst ==
  /\ pc = "install" /\ op = "update"
  /\ calls' = Append(Append(calls, "diagnose"), "install")
  /\ pending' = InstallPlan(site_packages, resolution, UpdateModifications,
                            settings.reinstall)
  /\ pc' = "installing"
  /\ UNCHANGED <<installed, op, spec, settings, site_packages, resolution, modified,
                 result, prevSync, prevInterrupted, second, retry, check, alreadySatisfied>>
  /\ UNCHANGED resolver_call
  /\ UNCHANGED exceptProject

\* pip::operations::install(&resolution, site_packages, Modifications::Exact, reinstall, ..)
UpdateInstall ==
  /\ pc = "install" /\ op = "update"
  /\ calls' = Append(calls, "install")
  /\ pending' = InstallPlan(site_packages, resolution, UpdateModifications,
                            settings.reinstall)
  /\ pc' = "installing"
  /\ UNCHANGED <<installed, op, spec, settings, site_packages, resolution, modified,
                 result, prevSync, prevInterrupted, second, retry, check, alreadySatisfied>>
  /\ UNCHANGED resolver_call
  /\ UNCHANGED exceptProject

\* sync_environment, entry: the SitePackages snapshot of the environment.
SyncBegin(R, re) ==
  /\ pc = "idle"
  /\ op' = "sync"
  /\ settings' = [reinstall |-> re, upgrade |-> "None"]
  /\ resolution' = R
  /\ site_packages' = installed
  /\ calls' = <<"site_packages">>
  /\ second' = (prevSync = R)
  /\ retry' = IF prevInterrupted.resolution # R THEN "none"
                ELSE IF prevInterrupted.applied = {} THEN "untouched" ELSE "partial"
  /\ prevSync' = NoResolution
  /\ prevInterrupted' = NoInterrupted
  /\ pc' = "tags"
  /\ UNCHANGED <<installed, spec, pending, modified, result, check, alreadySatisfied>>
  /\ UNCHANGED resolver_call
  /\ UNCHANGED exceptProject

\* SitePackages::from_environment(&venv)? fails.
SyncSitePackagesError ==
  /\ pc = "idle"
  /\ op' = "sync"
  /\ calls' = <<"site_packages">>
  /\ prevSync' = NoResolution
  /\ prevInterrupted' = NoInterrupted
  /\ Finish("Err_site_packages")
  /\ UNCHANGED <<installed, spec, settings, site_packages, resolution, pending,
                 modified, second, retry, check, alreadySatisfied>>
  /\ UNCHANGED resolver_call
  /\ UNCHANGED exceptProject

\* venv.interpreter().tags()?
SyncTags ==
  /\ pc = "tags" /\ op = "sync"
  /\ \/ pc' = "fetch" /\ UNCHANGED result
     \/ Finish("Err_tags")
  /\ UNCHANGED <<installed, op, spec, settings, site_packages, resolution, pending,
                 modified, calls, prevSync, prevInterrupted, second, retry, check, alreadySatisfied>>
  /\ UNCHANGED resolver_call
  /\ UNCHANGED exceptProject

\* client.fetch(index_locations.flat_index()).await?
SyncFlatIndex ==
  /\ pc = "fetch" /\ op = "sync"
  /\ calls' = Append(calls, "flat_index")
  /\ \/ pc' = "install" /\ UNCHANGED result
     \/ Finish("Err_flat_index")
  /\ UNCHANGED <<installed, op, spec, settings, site_packages, resolution, pending,
                 modified, prevSync, prevInterrupted, second, retry, check, alreadySatisfied>>
  /\ UNCHANGED resolver_call
  /\ UNCHANGED exceptProject

\* Faulty variant of SyncModifications: extraneous packages are left installed.
SyncModificationsSufficient == "Sufficient"

\* The modifications sync_environment asks the installer for.
SyncModifications == "Exact"

\* Faulty variant of SyncInstall: the installer is handed an empty snapshot instead of
\* the environment's SitePackages, so it plans to install every pinned package.
SyncInstallEmptySnapshot ==
  /\ pc = "install" /\ op = "sync"
  /\ calls' = Append(calls, "install")
  /\ pending' = InstallPlan([p \in Pkgs |-> 0], resolution, SyncModifications,
                            settings.reinstall)
  /\ pc' = "installing"
  /\ UNCHANGED <<installed, op, spec, settings, site_packages, resolution, modified,
                 result, prevSync, prevInterrupted, second, retry, check, alreadySatisfied>>
  /\ UNCHANGED resolver_call
  /\ UNCHANGED exceptProject

\* pip::operations::install(resolution, site_packages, Modifications::Exact, reinstall, ..)
SyncInstall ==
  /\ pc = "install" /\ op = "sync"
  /\ calls' = Append(calls, "install")
  /\ pending' = InstallPlan(site_packages, resolution, SyncModifications,
                            settings.reinstall)
  /\ pc' = "installing"
  /\ UNCHANGED <<installed, op, spec, settings, site_packages, resolution, modified,
                 result, prevSync, prevInterrupted, second, retry, check, alreadySatisfied>>
  /\ UNCHANGED resolver_call
  /\ UNCHANGED exceptProject

\* The installer applies one modification of its plan: the package is brought to the
\* Resolution's version (removed when the Resolution does not pin it).
InstallStep(p) ==
  /\ pc = "installing"
  /\ p \in pending
  /\ installed' = [installed EXCEPT ![p] = resolution[p]]
  /\ pending' = pending \ {p}
  /\ modified' = modified \cup {p}
  /\ UNCHANGED <<pc, op, spec, settings, site_packages, resolution, calls, result,
                 prevSync, prevInterrupted, second, retry, check, alreadySatisfied>>
  /\ UNCHANGED resolver_call
  /\ UNCHANGED exceptProject

\* The installer fails part-way: what it has applied stays applied (no rollback).
InstallError ==
  /\ pc = "installing"
  /\ Finish("Err_install")
  /\ prevInterrupted' = IF op = "sync"
                        THEN [resolution |-> resolution, applied |-> modified]
                        ELSE NoInterrupted
  /\ UNCHANGED <<installed, op, spec, settings, site_packages, resolution, pending,
                 modified, calls, prevSync, second, retry, check, alreadySatisfied>>
  /\ UNCHANGED resolver_call
  /\ UNCHANGED exceptProject

\* The installer has applied its whole plan and returns Ok.
InstallDone ==
  /\ pc = "installing"
  /\ pending = {}
  /\ pc' = "diagnose"
  /\ UNCHANGED <<installed, op, spec, settings, site_packages, resolution, pending,
                 modified, calls, result, prevSync, prevInterrupted, second, retry, check, alreadySatisfied>>
  /\ UNCHANGED resolver_call
  /\ UNCHANGED exceptProject

\* pip::operations::diagnose_resolution(..)?; Ok(venv)
UpdateDiagnose ==
  /\ pc = "diagnose" /\ op = "update"
  /\ calls' = Append(calls, "diagnose")
  /\ \/ Finish("Ok")
     \/ Finish("Err_diagnose")
  /\ UNCHANGED <<installed, op, spec, settings, site_packages, resolution, pending,
                 modified, prevSync, prevInterrupted, second, retry, check, alreadySatisfied>>
  /\ UNCHANGED resolver_call
  /\ UNCHANGED exceptProject

\* pip::operations::diagnose_resolution(..)?; Ok(venv)
SyncDiagnose ==
  /\ pc = "diagnose" /\ op = "sync"
  /\ calls' = Append(calls, "diagnose")
  /\ \/ Finish("Ok") /\ prevSync' = resolution
     \/ Finish("Err_diagnose") /\ UNCHANGED prevSync
  /\ UNCHANGED <<installed, op, spec, settings, site_packages, resolution, pending,
                 modified, second, retry, prevInterrupted, check, alreadySatisfied>>
  /\ UNCHANGED resolver_call
  /\ UNCHANGED exceptProject

\* The caller takes the result; the environment on disk stays as the call left it.
ProjectReturn ==
  /\ pc = "done"
  /\ pc' = "idle"
  /\ op' = "none"
  /\ spec' = NoSpec
  /\ settings' = NoSettings
  /\ site_packages' = NoSnapshot
  /\ resolution' = NoResolution
  /\ pending' = {}
  /\ modified' = {}
  /\ calls' = <<>>
  /\ result' = "none"
  /\ check' = "none"
  /\ alreadySatisfied' = FALSE
  /\ second' = FALSE
  /\ retry' = "none"
  /\ UNCHANGED <<installed, prevSync, prevInterrupted>>
  /\ resolver_call' = NoResolverCall
  /\ UNCHANGED exceptProject

\* Faulty variant of ResolveEnvironmentCall: the caller's policies reach the resolver.
ResolveEnvironmentCallOfCaller(st) ==
  [installed_packages |-> EmptyInstalledPackages, reinstall |-> st.reinstall,
   upgrade |-> st.upgrade]

\* The installed-package source and the policies resolve_environment hands to the
\* resolver: EmptyInstalledPackages, Reinstall::default(), Upgrade::default().
ResolveEnvironmentCall(st) ==
  [installed_packages |-> EmptyInstalledPackages, reinstall |-> "None", upgrade |-> "None"]

\* resolve_environment(interpreter, spec, settings, ..), entry. The ResolverSettingsRef
\* has no reinstall policy; its upgrade policy is taken apart as `upgrade: _`.
ResolveEnvBegin(reqs, src, up) ==
  /\ pc = "idle"
  /\ op' = "resolve"
  /\ spec' = [requirements |-> reqs, source_trees |-> src]
  /\ settings' = [reinstall |-> "None", upgrade |-> up]
  /\ pc' = "tags"
  /\ prevSync' = NoResolution
  /\ prevInterrupted' = NoInterrupted
  /\ UNCHANGED <<installed, site_packages, resolution, pending, modified, calls, result,
                 check, alreadySatisfied, second, retry, resolver_call>>
  /\ UNCHANGED exceptProject

\* let tags = interpreter.tags()?;
ResolveEnvTags ==
  /\ pc = "tags" /\ op = "resolve"
  /\ \/ pc' = "fetch" /\ UNCHANGED result
     \/ Finish("Err_tags")
  /\ UNCHANGED <<installed, op, spec, settings, site_packages, resolution, pending,
                 modified, calls, check, alreadySatisfied, prevSync, second,
                 prevInterrupted, retry, resolver_call>>
  /\ UNCHANGED exceptProject

\* client.fetch(index_locations.flat_index()).await?
ResolveEnvFlatIndex ==
  /\ pc = "fetch" /\ op = "resolve"
  /\ calls' = Append(calls, "flat_index")
  /\ \/ pc' = "resolve" /\ UNCHANGED result
     \/ Finish("Err_flat_index")
  /\ UNCHANGED <<installed, op, spec, settings, site_packages, resolution, pending,
                 modified, check, alreadySatisfied, prevSync, second, prevInterrupted,
                 retry, resolver_call>>
  /\ UNCHANGED exceptProject

\* Ok(pip::operations::resolve(spec.requirements, .., EmptyInstalledPackages, &hasher,
\* &reinstall, &upgrade, ..).await?): the ResolutionGraph, or the resolver's error.
ResolveEnvResolve ==
  /\ pc = "resolve" /\ op = "resolve"
  /\ calls' = Append(calls, "resolve")
  /\ resolver_call' = ResolveEnvironmentCall(settings)
  /\ \/ \E R \in Resolve(spec.requirements, spec.source_trees) :
          /\ resolution' = R
          /\ Finish("Ok")
     \/ Finish("Err_resolve") /\ UNCHANGED resolution
  /\ spec' = [spec EXCEPT !.requirements = {}]
  /\ UNCHANGED <<installed, op, settings, site_packages, pending, modified, check,
                 alreadySatisfied, prevSync, second, prevInterrupted, retry>>
  /\ UNCHANGED exceptProject

Policies == {"None", "All"}

NextProject ==
  \/ /\ pc = "idle"
     /\ \E reqs \in RequirementSets, src \in BOOLEAN, re \in Policies, up \in Policies :
          UpdateBegin(reqs, src, re, up)
  \/ /\ pc = "idle"
     /\ \E reqs \in RequirementSets, src \in BOOLEAN, re \in Policies, up \in Policies :
          UpdateSitePackagesError(reqs, src, re, up)
  \/ UpdateFresh
  \/ UpdateUnsatisfied
  \/ UpdateSatisfiesError
  \/ UpdateCheckSkipped
  \/ UpdateTags
  \/ UpdateFlatIndex
  \/ UpdateResolve
  \/ UpdateInstall
  \/ /\ pc = "idle"
     /\ \E R \in Resolutions, re \in Policies : SyncBegin(R, re)
  \/ SyncSitePackagesError
  \/ SyncTags
  \/ SyncFlatIndex
  \/ SyncInstall
  \/ \E p \in Pkgs : InstallStep(p)
  \/ InstallError
  \/ InstallDone
  \/ UpdateDiagnose
  \/ SyncDiagnose
  \/ ProjectReturn

(***************************************************************************)
(* The tool-run pipeline: get_or_create_environment, run by concurrent      *)
(* invocations (processes) that share the installed-tools registry, its     *)
(* advisory lock and the ephemeral environment cache.                       *)
(***************************************************************************)
NumProcs == 2
MaxRuns == 2

Procs == 1..NumProcs

Interpreters == {1, 2}

\* A Python request: 0 = none given, i = "the interpreter i".
PythonRequests == {0} \cup Interpreters

\* The requirement strings of the command line.
FromStrings == {"black", "isort"}
WithStrings == {"isort", "ISORT", "black==1"}
WithLists == {<<>>} \cup {<<w>> : w \in WithStrings}

\* resolve_requirements on one string: the canonical (normalized) name and its pin.
\* Every string here is a named requirement, which is resolved without a request.
ParseRequirement(s) ==
  CASE s = "black"    -> [pkg |-> 1, ver |-> 0]
    [] s = "black==1" -> [pkg |-> 1, ver |-> 1]
    [] s = "isort"    -> [pkg |-> 2, ver |-> 0]
    [] s = "ISORT"    -> [pkg |-> 2, ver |-> 0]

\* resolve_requirements on a list of strings, order kept.
ResolveRequirements(strings) ==
  [i \in 1..Len(strings) |-> ParseRequirement(strings[i])]

\* Faulty variant of CombinedRequirements: the with requirements are dropped.
CombinedRequirementsFromOnly(from, withs) == <<from>>

\* Combine the `from` and `with` requirements: from first, then every with entry.
CombinedRequirements(from, withs) == <<from>> \o withs

\* python_request.map_or(true, |request| request.satisfied(environment.interpreter()))
PythonSatisfied(request, interp) == request = 0 \/ request = interp

\* The fingerprint of a cache request: a digest of the resolved requirements and the
\* interpreter, taken to be collision-free.
Fingerprint(reqs, interp) == <<reqs, interp>>

NoEnvironment == <<>>
NoRequest == <<>>
NoResult == [status |-> "none", source |-> "none", fp |-> <<>>, hit |-> FALSE]

\* The environments the tool `black` (package 1) is found installed with: alone, or
\* together with `isort` (package 2), on interpreter 1.
ToolEnvironments ==
  {[interpreter |-> 1, installed |-> [p \in Pkgs |-> IF p <= n THEN 1 ELSE 0]] :
     n \in {1, 2}}

Range(f) == {f[i] : i \in DOMAIN f}

InitTool ==
  /\ tpc = [p \in Procs |-> "idle"]
  /\ req = [p \in Procs |-> NoRequest]
  /\ interpreter = [p \in Procs |-> 0]
  /\ requirements = [p \in Procs |-> <<>>]
  /\ existing = [p \in Procs |-> NoEnvironment]
  /\ tresult = [p \in Procs |-> NoResult]
  /\ tcalls = [p \in Procs |-> <<>>]
  /\ net = [p \in Procs |-> {}]
  /\ lock = 0
  /\ registry \in [{1} -> ToolEnvironments \cup {NoEnvironment}]
  /\ cache = {}
  /\ runs = 0

\* The other command is not running.
ProjectIdle ==
  /\ installed = [p \in Pkgs |-> 0]
  /\ pc = "idle"
  /\ op = "none"
  /\ spec = NoSpec
  /\ settings = NoSettings
  /\ site_packages = NoSnapshot
  /\ resolution = NoResolution
  /\ pending = {}
  /\ modified = {}
  /\ calls = <<>>
  /\ result = "none"
  /\ check = "none"
  /\ alreadySatisfied = FALSE
  /\ prevSync = NoResolution
  /\ second = FALSE
  /\ prevInterrupted = NoInterrupted
  /\ retry = "none"
  /\ resolver_call = NoResolverCall

ToolIdle ==
  /\ InitTool
  /\ registry = [t \in {1} |-> NoEnvironment]

TCalled(p, c) == \E i \in 1..Len(tcalls[p]) : tcalls[p][i] = c

\* An invocation returns: Ok((from, environment)) or the first error.
ToolFinish(p, res) ==
  /\ tpc' = [tpc EXCEPT ![p] = "done"]
  /\ tresult' = [tresult EXCEPT ![p] = res]

ToolError(e) == [status |-> e, source |-> "none", fp |-> <<>>, hit |-> FALSE]

\* get_or_create_environment, entry: PythonInstallation::find_or_fetch(python_request,
\* ..).await? finds an interpreter that meets the request, locally or by download.
FindOrFetch(p, from, withs, python, isolated, i, download) ==
  /\ tpc[p] = "idle"
  /\ runs < MaxRuns
  /\ runs' = runs + 1
  /\ PythonSatisfied(python, i)
  /\ req' = [req EXCEPT ![p] = [from |-> from, with |-> withs, python |-> python,
                                isolated |-> isolated]]
  /\ interpreter' = [interpreter EXCEPT ![p] = i]
  /\ tcalls' = [tcalls EXCEPT ![p] = <<"find_or_fetch">>]
  /\ net' = [net EXCEPT ![p] = IF download THEN {"interpreter_download"} ELSE {}]
  /\ tpc' = [tpc EXCEPT ![p] = "resolve_from"]
  /\ UNCHANGED <<requirements, existing, tresult, lock, registry, cache>>
  /\ UNCHANGED exceptTool

\* find_or_fetch fails: no interpreter found, or the download failed.
FindOrFetchError(p, from, withs, python, isolated) ==
  /\ tpc[p] = "idle"
  /\ runs < MaxRuns
  /\ runs' = runs + 1
  /\ req' = [req EXCEPT ![p] = [from |-> from, with |-> withs, python |-> python,
                                isolated |-> isolated]]
  /\ tcalls' = [tcalls EXCEPT ![p] = <<"find_or_fetch">>]
  /\ ToolFinish(p, ToolError("Err_python"))
  /\ UNCHANGED <<interpreter, requirements, existing, net, lock, registry, cache>>
  /\ UNCHANGED exceptTool

\* Resolve the `from` requirement: resolve_requirements(once(from), ..).await?.pop()
ResolveFrom(p) ==
  /\ tpc[p] = "resolve_from"
  /\ tcalls' = [tcalls EXCEPT ![p] = Append(@, "resolve_from")]
  /\ requirements' = [requirements EXCEPT
                        ![p] = ResolveRequirements(<<req[p].from>>)]
  /\ tpc' = [tpc EXCEPT ![p] = "resolve_with"]
  /\ UNCHANGED <<req, interpreter, existing, tresult, net, lock, registry, cache, runs>>
  /\ UNCHANGED exceptTool

ResolveFromError(p) ==
  /\ tpc[p] = "resolve_from"
  /\ tcalls' = [tcalls EXCEPT ![p] = Append(@, "resolve_from")]
  /\ ToolFinish(p, ToolError("Err_resolve_from"))
  /\ UNCHANGED <<req, interpreter, requirements, existing, net, lock, registry, cache,
                 runs>>
  /\ UNCHANGED exceptTool

\* Combine the `from` and `with` requirements: resolve_requirements(with.iter(), ..).await?
ResolveWith(p) ==
  /\ tpc[p] = "resolve_with"
  /\ tcalls' = [tcalls EXCEPT ![p] = Append(@, "resolve_with")]
  /\ requirements' = [requirements EXCEPT
                        ![p] = CombinedRequirements(requirements[p][1],
                                                    ResolveRequirements(req[p].with))]
  /\ tpc' = [tpc EXCEPT ![p] = "check"]
  /\ UNCHANGED <<req, interpreter, existing, tresult, net, lock, registry, cache, runs>>
  /\ UNCHANGED exceptTool

ResolveWithError(p) ==
  /\ tpc[p] = "resolve_with"
  /\ tcalls' = [tcalls EXCEPT ![p] = Append(@, "resolve_with")]
  /\ ToolFinish(p, ToolError("Err_resolve_with"))
  /\ UNCHANGED <<req, interpreter, requirements, existing, net, lock, registry, cache,
                 runs>>
  /\ UNCHANGED exceptTool

\* if !isolated { .. } is skipped: isolation is forced.
SkipIsolated(p) ==
  /\ tpc[p] = "check"
  /\ req[p].isolated
  /\ tpc' = [tpc EXCEPT ![p] = "cached"]
  /\ UNCHANGED <<req, interpreter, requirements, existing, tresult, tcalls, net, lock,
                 registry, cache, runs>>
  /\ UNCHANGED exceptTool

\* InstalledTools::from_settings()?.init()?: the registry directory and its lock file.
ToolsInit(p) ==
  /\ tpc[p] = "check"
  /\ ~req[p].isolated
  /\ tcalls' = [tcalls EXCEPT ![p] = Append(@, "installed_tools")]
  /\ \/ tpc' = [tpc EXCEPT ![p] = "acquire"] /\ UNCHANGED tresult
     \/ ToolFinish(p, ToolError("Err_installed_tools"))
  /\ UNCHANGED <<req, interpreter, requirements, existing, net, lock, registry, cache,
                 runs>>
  /\ UNCHANGED exceptTool

\* Faulty variant of AcquireLock: the guard is bound to `_`, so it is dropped at once
\* and the block runs without the lock.
AcquireLockDroppedAtOnce(p) ==
  /\ tpc[p] = "acquire"
  /\ lock = 0
  /\ lock' = lock
  /\ tcalls' = [tcalls EXCEPT ![p] = Append(@, "acquire_lock")]
  /\ tpc' = [tpc EXCEPT ![p] = "locked"]
  /\ UNCHANGED <<req, interpreter, requirements, existing, tresult, net, registry,
                 cache, runs>>
  /\ UNCHANGED exceptTool

\* let _lock = installed_tools.acquire_lock()?: blocks until the advisory lock is free.
AcquireLock(p) ==
  /\ tpc[p] = "acquire"
  /\ lock = 0
  /\ lock' = p
  /\ tcalls' = [tcalls EXCEPT ![p] = Append(@, "acquire_lock")]
  /\ tpc' = [tpc EXCEPT ![p] = "locked"]
  /\ UNCHANGED <<req, interpreter, requirements, existing, tresult, net, registry,
                 cache, runs>>
  /\ UNCHANGED exceptTool

\* _lock goes out of scope: the advisory lock is released.
ReleaseLock(p) == IF lock = p THEN 0 ELSE lock

\* Faulty variant of GetEnvironment: the Python request is not checked.
GetEnvironmentNoPythonFilter(p) ==
  /\ tpc[p] = "locked"
  /\ tcalls' = [tcalls EXCEPT ![p] = Append(@, "get_environment")]
  /\ LET name == requirements[p][1].pkg
         env == IF name \in DOMAIN registry THEN registry[name] ELSE <<>>
     IN IF env # <<>>
        THEN /\ existing' = [existing EXCEPT ![p] = env]
             /\ tpc' = [tpc EXCEPT ![p] = "found"]
             /\ UNCHANGED lock
        ELSE /\ tpc' = [tpc EXCEPT ![p] = "cached"]
             /\ lock' = ReleaseLock(p)
             /\ UNCHANGED existing
  /\ UNCHANGED <<req, interpreter, requirements, tresult, net, registry, cache, runs>>
  /\ UNCHANGED exceptTool

\* installed_tools.get_environment(&from.name, cache)?.filter(python request satisfied)
GetEnvironment(p) ==
  /\ tpc[p] = "locked"
  /\ tcalls' = [tcalls EXCEPT ![p] = Append(@, "get_environment")]
  /\ LET name == requirements[p][1].pkg
         env == IF name \in DOMAIN registry THEN registry[name] ELSE NoEnvironment
     IN IF env # NoEnvironment /\ PythonSatisfied(req[p].python, env.interpreter)
        THEN \* Some(environment): go on to the satisfaction check
             /\ existing' = [existing EXCEPT ![p] = env]
             /\ tpc' = [tpc EXCEPT ![p] = "found"]
             /\ UNCHANGED lock
        ELSE \* None: leave the block
             /\ tpc' = [tpc EXCEPT ![p] = "cached"]
             /\ lock' = ReleaseLock(p)
             /\ UNCHANGED existing
  /\ UNCHANGED <<req, interpreter, requirements, tresult, net, registry, cache, runs>>
  /\ UNCHANGED exceptTool

\* Faulty variant of GetEnvironmentError: the error exit keeps the lock.
GetEnvironmentErrorKeepsLock(p) ==
  /\ tpc[p] = "locked"
  /\ tcalls' = [tcalls EXCEPT ![p] = Append(@, "get_environment")]
  /\ ToolFinish(p, ToolError("Err_get_environment"))
  /\ UNCHANGED <<req, interpreter, requirements, existing, net, lock, registry, cache,
                 runs>>
  /\ UNCHANGED exceptTool

\* installed_tools.get_environment(..)? fails.
GetEnvironmentError(p) ==
  /\ tpc[p] = "locked"
  /\ tcalls' = [tcalls EXCEPT ![p] = Append(@, "get_environment")]
  /\ lock' = ReleaseLock(p)
  /\ ToolFinish(p, ToolError("Err_get_environment"))
  /\ UNCHANGED <<req, interpreter, requirements, existing, net, registry, cache, runs>>
  /\ UNCHANGED exceptTool

\* The requirement set handed to the satisfaction check.
RequirementSet(p) == Range(requirements[p])

\* Faulty variant of ReuseExisting: a Fresh environment is not used.
ReuseExistingIgnored(p) ==
  /\ tpc[p] = "found"
  /\ Satisfies(existing[p].installed, RequirementSet(p)) = "Fresh"
  /\ tcalls' = [tcalls EXCEPT ![p] = Append(Append(@, "site_packages"), "satisfies")]
  /\ lock' = ReleaseLock(p)
  /\ tpc' = [tpc EXCEPT ![p] = "cached"]
  /\ UNCHANGED <<req, interpreter, requirements, existing, tresult, net, registry,
                 cache, runs>>
  /\ UNCHANGED exceptTool

\* site_packages.satisfies(&requirements, &constraints) is Ok(Fresh): use the existing tool.
ReuseExisting(p) ==
  /\ tpc[p] = "found"
  /\ Satisfies(existing[p].installed, RequirementSet(p)) = "Fresh"
  /\ tcalls' = [tcalls EXCEPT ![p] = Append(Append(@, "site_packages"), "satisfies")]
  /\ lock' = ReleaseLock(p)
  /\ ToolFinish(p, [status |-> "Ok", source |-> "registry", fp |-> <<>>, hit |-> FALSE])
  /\ UNCHANGED <<req, interpreter, requirements, existing, net, registry, cache, runs>>
  /\ UNCHANGED exceptTool

\* Faulty variant of NotReusable: the lock guard outlives the block.
NotReusableKeepsLock(p) ==
  /\ tpc[p] = "found"
  /\ Satisfies(existing[p].installed, RequirementSet(p)) = "Unsatisfied"
  /\ tcalls' = [tcalls EXCEPT ![p] = Append(Append(@, "site_packages"), "satisfies")]
  /\ tpc' = [tpc EXCEPT ![p] = "cached"]
  /\ UNCHANGED <<req, interpreter, requirements, existing, tresult, net, lock, registry,
                 cache, runs>>
  /\ UNCHANGED exceptTool

\* The check is Ok(Unsatisfied): not reusable, leave the block.
NotReusable(p) ==
  /\ tpc[p] = "found"
  /\ Satisfies(existing[p].installed, RequirementSet(p)) = "Unsatisfied"
  /\ tcalls' = [tcalls EXCEPT ![p] = Append(Append(@, "site_packages"), "satisfies")]
  /\ lock' = ReleaseLock(p)
  /\ tpc' = [tpc EXCEPT ![p] = "cached"]
  /\ UNCHANGED <<req, interpreter, requirements, existing, tresult, net, registry,
                 cache, runs>>
  /\ UNCHANGED exceptTool

\* Faulty variant of ReuseCheckError: the error of the check ends the invocation.
ReuseCheckErrorFatal(p) ==
  /\ tpc[p] = "found"
  /\ tcalls' = [tcalls EXCEPT ![p] =
                  Append(Append(Append(@, "site_packages"), "satisfies"), "satisfies_err")]
  /\ lock' = ReleaseLock(p)
  /\ ToolFinish(p, ToolError("Err_satisfies"))
  /\ UNCHANGED <<req, interpreter, requirements, existing, net, registry, cache, runs>>
  /\ UNCHANGED exceptTool

\* The check is Err: matches!(.., Ok(Fresh)) is false, not reusable, leave the block.
ReuseCheckError(p) ==
  /\ tpc[p] = "found"
  /\ tcalls' = [tcalls EXCEPT ![p] =
                  Append(Append(Append(@, "site_packages"), "satisfies"), "satisfies_err")]
  /\ lock' = ReleaseLock(p)
  /\ tpc' = [tpc EXCEPT ![p] = "cached"]
  /\ UNCHANGED <<req, interpreter, requirements, existing, tresult, net, registry,
                 cache, runs>>
  /\ UNCHANGED exceptTool

\* SitePackages::from_environment(&environment)? fails.
ExistingSitePackagesError(p) ==
  /\ tpc[p] = "found"
  /\ tcalls' = [tcalls EXCEPT ![p] = Append(@, "site_packages")]
  /\ lock' = ReleaseLock(p)
  /\ ToolFinish(p, ToolError("Err_site_packages"))
  /\ UNCHANGED <<req, interpreter, requirements, existing, net, registry, cache, runs>>
  /\ UNCHANGED exceptTool

\* Faulty variant of CacheRequest: only the `from` requirement is handed over.
CacheRequestFromOnly(p) ==
  [requirements |-> <<requirements[p][1]>>, interpreter |-> interpreter[p]]

\* What get_or_create_environment hands to CachedEnvironment::get_or_create.
CacheRequest(p) == [requirements |-> requirements[p], interpreter |-> interpreter[p]]

\* CachedEnvironment::get_or_create finds the entry of the request's fingerprint.
CachedHit(p) ==
  /\ tpc[p] = "cached"
  /\ LET fp == Fingerprint(CacheRequest(p).requirements, CacheRequest(p).interpreter)
     IN /\ \E e \in cache : e.fp = fp
        /\ ToolFinish(p, [status |-> "Ok", source |-> "cache", fp |-> fp, hit |-> TRUE])
  /\ tcalls' = [tcalls EXCEPT ![p] = Append(@, "cached_get_or_create")]
  /\ UNCHANGED <<req, interpreter, requirements, existing, net, lock, registry, cache,
                 runs>>
  /\ UNCHANGED exceptTool

\* CachedEnvironment::get_or_create finds no entry: it resolves the requirements,
\* creates a virtual environment, synchronizes it and stores it under the fingerprint.
CachedBuild(p) ==
  /\ tpc[p] = "cached"
  /\ LET fp == Fingerprint(CacheRequest(p).requirements, CacheRequest(p).interpreter)
     IN /\ ~\E e \in cache : e.fp = fp
        /\ cache' = cache \cup {[fp |-> fp, from |-> req[p].from, with |-> req[p].with,
                                  interpreter |-> interpreter[p]]}
        /\ ToolFinish(p, [status |-> "Ok", source |-> "cache", fp |-> fp, hit |-> FALSE])
  /\ tcalls' = [tcalls EXCEPT ![p] =
                  @ \o <<"cached_get_or_create", "resolve_environment", "create_venv",
                         "sync_environment">>]
  /\ net' = [net EXCEPT ![p] = @ \cup {"index_request"}]
  /\ UNCHANGED <<req, interpreter, requirements, existing, lock, registry, runs>>
  /\ UNCHANGED exceptTool

\* CachedEnvironment::get_or_create(..).await? fails.
CachedError(p) ==
  /\ tpc[p] = "cached"
  /\ tcalls' = [tcalls EXCEPT ![p] = Append(@, "cached_get_or_create")]
  /\ ToolFinish(p, ToolError("Err_cached"))
  /\ UNCHANGED <<req, interpreter, requirements, existing, net, lock, registry, cache,
                 runs>>
  /\ UNCHANGED exceptTool

\* The invocation ends; the registry and the cache persist.
ToolReturn(p) ==
  /\ tpc[p] = "done"
  /\ tpc' = [tpc EXCEPT ![p] = "idle"]
  /\ req' = [req EXCEPT ![p] = NoRequest]
  /\ interpreter' = [interpreter EXCEPT ![p] = 0]
  /\ requirements' = [requirements EXCEPT ![p] = <<>>]
  /\ existing' = [existing EXCEPT ![p] = NoEnvironment]
  /\ tresult' = [tresult EXCEPT ![p] = NoResult]
  /\ tcalls' = [tcalls EXCEPT ![p] = <<>>]
  /\ net' = [net EXCEPT ![p] = {}]
  /\ UNCHANGED <<lock, registry, cache, runs>>
  /\ UNCHANGED exceptTool

\* One step of invocation p, its arguments drawn from the given sets.
ToolStep(p, Froms, Withs, Pythons, Downloads) ==
  \/ /\ tpc[p] = "idle"
     /\ \E f \in Froms, w \in Withs, py \in Pythons, iso \in BOOLEAN,
           i \in Interpreters, dl \in Downloads : FindOrFetch(p, f, w, py, iso, i, dl)
  \/ /\ tpc[p] = "idle"
     /\ \E f \in Froms, w \in Withs, py \in Pythons, iso \in BOOLEAN :
           FindOrFetchError(p, f, w, py, iso)
  \/ ResolveFrom(p)
  \/ ResolveFromError(p)
  \/ ResolveWith(p)
  \/ ResolveWithError(p)
  \/ SkipIsolated(p)
  \/ ToolsInit(p)
  \/ AcquireLock(p)
  \/ GetEnvironment(p)
  \/ GetEnvironmentError(p)
  \/ ReuseExisting(p)
  \/ NotReusable(p)
  \/ ReuseCheckError(p)
  \/ ExistingSitePackagesError(p)
  \/ CachedHit(p)
  \/ CachedBuild(p)
  \/ CachedError(p)
  \/ ToolReturn(p)

\* The project command alone.
(***************************************************************************)
(* Interpreter discovery for a project: FoundInterpreter::discover and      *)
(* get_or_init_environment.                                                 *)
(***************************************************************************)
MaxPy == 2

\* Python versions, oldest first.
PyVersions == 1..MaxPy

\* Option<PythonRequest>: a request names the versions it accepts.
NoPythonRequest == [some |-> FALSE, versions |-> {}]
SomeRequest(S) == [some |-> TRUE, versions |-> S]
VersionRequests == {SomeRequest(S) : S \in (SUBSET PyVersions) \ {{}}}

\* request.satisfied(interpreter, cache)
RequestSatisfied(request, version) == version \in request.versions

\* interpreter_meets_requirements: no request is met by every interpreter.
interpreter_meets_requirements(version, requested_python) ==
  IF ~requested_python.some THEN TRUE ELSE RequestSatisfied(requested_python, version)

\* Requires-Python is a lower bound rp >= 1; 0 = the project declares none,
\* -1 = the members' bounds cannot be combined (find_requires_python fails).
RequiresPythonContains(rp, version) == version >= rp
RequiresPythonSpecifiers(rp) == {v \in PyVersions : v >= rp}

\* Option<&RequiresPython>: absent is met by every version.
MeetsRequiresPython(rp, version) == rp = 0 \/ RequiresPythonContains(rp, version)

\* The local version file: absent, unreadable, or pinning a request.
VersionFiles ==
  {[state |-> s, request |-> NoPythonRequest] : s \in {"absent", "unreadable"}}
    \cup {[state |-> "present", request |-> r] : r \in VersionRequests}

\* The directory at workspace.venv(): absent; a directory that is no environment; an
\* environment whose interpreter is gone; an unreadable environment; an environment.
NoVenv == [state |-> "absent", version |-> 0, prompt |-> "none",
           system_site_packages |-> FALSE, fresh |-> FALSE]
Venvs ==
  {[NoVenv EXCEPT !.state = s] : s \in {"absent", "invalid", "broken", "corrupt"}}
    \cup {[NoVenv EXCEPT !.state = "ok", !.version = v] : v \in PyVersions}

\* uv_virtualenv::create_venv(&venv, interpreter, Prompt::None, false, false)
CreatedVenv(version) ==
  [state |-> "ok", version |-> version, prompt |-> "None",
   system_site_packages |-> FALSE, fresh |-> TRUE]

Workspaces ==
  [requires_python : (0..MaxPy) \cup {-1}, version_file : VersionFiles, venv : Venvs]

NoFound == [kind |-> "none", version |-> 0, error |-> "none", requirement |-> 0]
FoundEnvironment(version) == [NoFound EXCEPT !.kind = "Environment", !.version = version]
FoundInterpreterOf(version) == [NoFound EXCEPT !.kind = "Interpreter", !.version = version]
FoundError(e) == [NoFound EXCEPT !.kind = "Err", !.error = e]

NoDResult == [status |-> "none", error |-> "none", environment |-> NoVenv]

InitDiscover ==
  /\ dpc = "idle"
  /\ python_arg = NoPythonRequest
  /\ workspace \in Workspaces
  /\ python_request = NoPythonRequest
  /\ dinterpreter = 0
  /\ found = NoFound
  /\ dresult = NoDResult
  /\ dcalls = <<>>

\* No discovery is running.
DiscoverIdle ==
  /\ dpc = "idle"
  /\ python_arg = NoPythonRequest
  /\ workspace = [requires_python |-> 0,
                  version_file |-> [state |-> "absent", request |-> NoPythonRequest],
                  venv |-> NoVenv]
  /\ python_request = NoPythonRequest
  /\ dinterpreter = 0
  /\ found = NoFound
  /\ dresult = NoDResult
  /\ dcalls = <<>>

DCalled(c) == \E i \in 1..Len(dcalls) : dcalls[i] = c

\* discover returns to get_or_init_environment.
DiscoverReturns(f) ==
  /\ found' = f
  /\ dpc' = "found"

\* get_or_init_environment(workspace, python, ..) calls FoundInterpreter::discover.
DiscoverBegin(request) ==
  /\ dpc = "idle"
  /\ python_arg' = request
  /\ dpc' = "requires_python"
  /\ UNCHANGED <<workspace, python_request, dinterpreter, found, dresult, dcalls>>
  /\ UNCHANGED exceptDiscover

\* let requires_python = find_requires_python(workspace)?;
FindRequiresPython ==
  /\ dpc = "requires_python"
  /\ workspace.requires_python >= 0
  /\ dcalls' = Append(dcalls, "find_requires_python")
  /\ dpc' = "request"
  /\ UNCHANGED <<python_arg, workspace, python_request, dinterpreter, found, dresult>>
  /\ UNCHANGED exceptDiscover

FindRequiresPythonError ==
  /\ dpc = "requires_python"
  /\ workspace.requires_python < 0
  /\ dcalls' = Append(dcalls, "find_requires_python")
  /\ DiscoverReturns(FoundError("RequiresPython"))
  /\ UNCHANGED <<python_arg, workspace, python_request, dinterpreter, dresult>>
  /\ UNCHANGED exceptDiscover

\* (1) Explicit request from user.
RequestExplicit ==
  /\ dpc = "request"
  /\ python_arg.some
  /\ python_request' = python_arg
  /\ dpc' = "probe"
  /\ UNCHANGED <<python_arg, workspace, dinterpreter, found, dresult, dcalls>>
  /\ UNCHANGED exceptDiscover

\* Faulty variant of RequestFromVersionFile: the version file's request is dropped
\* for the project's Requires-Python.
RequestVersionFileIgnored ==
  /\ dpc = "request"
  /\ ~python_arg.some
  /\ workspace.version_file.state = "present"
  /\ dcalls' = Append(dcalls, "request_from_version_file")
  /\ python_request' = IF workspace.requires_python > 0
                       THEN SomeRequest(RequiresPythonSpecifiers(workspace.requires_python))
                       ELSE NoPythonRequest
  /\ dpc' = "probe"
  /\ UNCHANGED <<python_arg, workspace, dinterpreter, found, dresult>>
  /\ UNCHANGED exceptDiscover

\* (2) Request from `.python-version`: request_from_version_file().await? is Some.
RequestFromVersionFile ==
  /\ dpc = "request"
  /\ ~python_arg.some
  /\ workspace.version_file.state = "present"
  /\ dcalls' = Append(dcalls, "request_from_version_file")
  /\ python_request' = workspace.version_file.request
  /\ dpc' = "probe"
  /\ UNCHANGED <<python_arg, workspace, dinterpreter, found, dresult>>
  /\ UNCHANGED exceptDiscover

\* request_from_version_file().await? fails.
RequestVersionFileError ==
  /\ dpc = "request"
  /\ ~python_arg.some
  /\ workspace.version_file.state = "unreadable"
  /\ dcalls' = Append(dcalls, "request_from_version_file")
  /\ DiscoverReturns(FoundError("Io"))
  /\ UNCHANGED <<python_arg, workspace, python_request, dinterpreter, dresult>>
  /\ UNCHANGED exceptDiscover

\* (3) `Requires-Python` in `pyproject.toml`: its specifiers as a version range, or
\* no request when the project declares none.
RequestFromRequiresPython ==
  /\ dpc = "request"
  /\ ~python_arg.some
  /\ workspace.version_file.state = "absent"
  /\ dcalls' = Append(dcalls, "request_from_version_file")
  /\ python_request' = IF workspace.requires_python > 0
                       THEN SomeRequest(RequiresPythonSpecifiers(workspace.requires_python))
                       ELSE NoPythonRequest
  /\ dpc' = "probe"
  /\ UNCHANGED <<python_arg, workspace, dinterpreter, found, dresult>>
  /\ UNCHANGED exceptDiscover

\* The existing environment passes both checks of lines 175-189.
VenvCompatible ==
  /\ interpreter_meets_requirements(workspace.venv.version, python_request)
  /\ MeetsRequiresPython(workspace.requires_python, workspace.venv.version)

\* Faulty variant of ProbeCompatible: the project's Requires-Python is not checked.
ProbeSkipsRequiresPython ==
  /\ dpc = "probe"
  /\ workspace.venv.state = "ok"
  /\ interpreter_meets_requirements(workspace.venv.version, python_request)
  /\ dcalls' = Append(dcalls, "find_environment")
  /\ DiscoverReturns(FoundEnvironment(workspace.venv.version))
  /\ UNCHANGED <<python_arg, workspace, python_request, dinterpreter, dresult>>
  /\ UNCHANGED exceptDiscover

\* Faulty variant of ProbeCompatible: the environment's interpreter is announced with
\* the status line of the fetch path.
ProbeCompatibleAnnounced ==
  /\ dpc = "probe"
  /\ workspace.venv.state = "ok"
  /\ VenvCompatible
  /\ dcalls' = dcalls \o <<"find_environment", "Using Python">>
  /\ DiscoverReturns(FoundEnvironment(workspace.venv.version))
  /\ UNCHANGED <<python_arg, workspace, python_request, dinterpreter, dresult>>
  /\ UNCHANGED exceptDiscover

\* find_environment is Ok(venv) and the interpreter meets the request and the
\* project's Requires-Python: return Ok(Self::Environment(venv)).
ProbeCompatible ==
  /\ dpc = "probe"
  /\ workspace.venv.state = "ok"
  /\ VenvCompatible
  /\ dcalls' = Append(dcalls, "find_environment")
  /\ DiscoverReturns(FoundEnvironment(workspace.venv.version))
  /\ UNCHANGED <<python_arg, workspace, python_request, dinterpreter, dresult>>
  /\ UNCHANGED exceptDiscover

\* find_environment is Ok(venv) but one of the checks fails: fall through.
ProbeIncompatible ==
  /\ dpc = "probe"
  /\ workspace.venv.state = "ok"
  /\ ~VenvCompatible
  /\ dcalls' = Append(dcalls, "find_environment")
  /\ dpc' = "fetch"
  /\ UNCHANGED <<python_arg, workspace, python_request, dinterpreter, found, dresult>>
  /\ UNCHANGED exceptDiscover

\* Err(uv_python::Error::MissingEnvironment(_)) => {}
ProbeMissing ==
  /\ dpc = "probe"
  /\ workspace.venv.state \in {"absent", "invalid"}
  /\ dcalls' = Append(dcalls, "find_environment")
  /\ dpc' = "fetch"
  /\ UNCHANGED <<python_arg, workspace, python_request, dinterpreter, found, dresult>>
  /\ UNCHANGED exceptDiscover

\* Err(Query(InterpreterError::NotFound(path))) => warn_user!(..)
ProbeInterpreterNotFound ==
  /\ dpc = "probe"
  /\ workspace.venv.state = "broken"
  /\ dcalls' = dcalls \o <<"find_environment", "warn_user">>
  /\ dpc' = "fetch"
  /\ UNCHANGED <<python_arg, workspace, python_request, dinterpreter, found, dresult>>
  /\ UNCHANGED exceptDiscover

\* Faulty variant of ProbeError: the error is swallowed and discovery goes on.
ProbeErrorSwallowed ==
  /\ dpc = "probe"
  /\ workspace.venv.state = "corrupt"
  /\ dcalls' = Append(dcalls, "find_environment")
  /\ dpc' = "fetch"
  /\ UNCHANGED <<python_arg, workspace, python_request, dinterpreter, found, dresult>>
  /\ UNCHANGED exceptDiscover

\* Err(err) => return Err(err.into())
ProbeError ==
  /\ dpc = "probe"
  /\ workspace.venv.state = "corrupt"
  /\ dcalls' = Append(dcalls, "find_environment")
  /\ DiscoverReturns(FoundError("Python"))
  /\ UNCHANGED <<python_arg, workspace, python_request, dinterpreter, dresult>>
  /\ UNCHANGED exceptDiscover

\* PythonInstallation::find_or_fetch(python_request, ..).await?.into_interpreter():
\* an interpreter that meets the effective request, found or downloaded.
DiscoverFindOrFetch(version) ==
  /\ dpc = "fetch"
  /\ interpreter_meets_requirements(version, python_request)
  /\ dinterpreter' = version
  /\ dcalls' = dcalls \o <<"find_or_fetch", "Using Python">>
  /\ dpc' = "validate"
  /\ UNCHANGED <<python_arg, workspace, python_request, found, dresult>>
  /\ UNCHANGED exceptDiscover

\* find_or_fetch(..).await? fails: nothing meets the request, or the download fails.
DiscoverFindOrFetchError ==
  /\ dpc = "fetch"
  /\ dcalls' = Append(dcalls, "find_or_fetch")
  /\ DiscoverReturns(FoundError("Python"))
  /\ UNCHANGED <<python_arg, workspace, python_request, dinterpreter, dresult>>
  /\ UNCHANGED exceptDiscover

\* Faulty variant of ValidateIncompatible: the interpreter is returned unchecked.
ValidateSkipped ==
  /\ dpc = "validate"
  /\ ~MeetsRequiresPython(workspace.requires_python, dinterpreter)
  /\ DiscoverReturns(FoundInterpreterOf(dinterpreter))
  /\ UNCHANGED <<python_arg, workspace, python_request, dinterpreter, dresult, dcalls>>
  /\ UNCHANGED exceptDiscover

\* if !requires_python.contains(interpreter.python_version()):
\* Err(RequestedPythonIncompatibility(version, requires_python))
ValidateIncompatible ==
  /\ dpc = "validate"
  /\ ~MeetsRequiresPython(workspace.requires_python, dinterpreter)
  /\ DiscoverReturns([kind |-> "Err", version |-> dinterpreter,
                      error |-> "RequestedPythonIncompatibility",
                      requirement |-> workspace.requires_python])
  /\ UNCHANGED <<python_arg, workspace, python_request, dinterpreter, dresult, dcalls>>
  /\ UNCHANGED exceptDiscover

\* Ok(Self::Interpreter(interpreter))
ValidateOk ==
  /\ dpc = "validate"
  /\ MeetsRequiresPython(workspace.requires_python, dinterpreter)
  /\ DiscoverReturns(FoundInterpreterOf(dinterpreter))
  /\ UNCHANGED <<python_arg, workspace, python_request, dinterpreter, dresult, dcalls>>
  /\ UNCHANGED exceptDiscover

\* get_or_init_environment returns.
DiscoverFinish(status, e, environment) ==
  /\ dresult' = [status |-> status, error |-> e, environment |-> environment]
  /\ dpc' = "done"

\* Faulty variant of InitEnvironmentError: the venv directory is removed before the
\* error of discovery is returned.
InitEnvironmentErrorCleansUp ==
  /\ dpc = "found"
  /\ found.kind = "Err"
  /\ workspace' = [workspace EXCEPT !.venv = NoVenv]
  /\ dcalls' = Append(dcalls, "remove_dir_all")
  /\ DiscoverFinish("Err", found.error, NoVenv)
  /\ UNCHANGED <<python_arg, python_request, dinterpreter, found>>
  /\ UNCHANGED exceptDiscover

\* FoundInterpreter::discover(..).await? is an error.
InitEnvironmentError ==
  /\ dpc = "found"
  /\ found.kind = "Err"
  /\ DiscoverFinish("Err", found.error, NoVenv)
  /\ UNCHANGED <<python_arg, workspace, python_request, dinterpreter, found, dcalls>>
  /\ UNCHANGED exceptDiscover

\* Faulty variant of InitEnvironmentExisting: the environment is built anew.
InitEnvironmentRebuilt ==
  /\ dpc = "found"
  /\ found.kind = "Environment"
  /\ dcalls' = dcalls \o <<"remove_dir_all", "create_venv">>
  /\ workspace' = [workspace EXCEPT !.venv = CreatedVenv(found.version)]
  /\ DiscoverFinish("Ok", "none", CreatedVenv(found.version))
  /\ UNCHANGED <<python_arg, python_request, dinterpreter, found>>
  /\ UNCHANGED exceptDiscover

\* FoundInterpreter::Environment(environment) => Ok(environment)
InitEnvironmentExisting ==
  /\ dpc = "found"
  /\ found.kind = "Environment"
  /\ DiscoverFinish("Ok", "none", workspace.venv)
  /\ UNCHANGED <<python_arg, workspace, python_request, dinterpreter, found, dcalls>>
  /\ UNCHANGED exceptDiscover

\* fs_err::remove_dir_all(&venv) is Ok(()).
RemoveOk ==
  /\ dpc = "found"
  /\ found.kind = "Interpreter"
  /\ workspace.venv.state # "absent"
  /\ workspace' = [workspace EXCEPT !.venv = NoVenv]
  /\ dcalls' = dcalls \o <<"remove_dir_all", "Removed virtual environment">>
  /\ dpc' = "create"
  /\ UNCHANGED <<python_arg, python_request, dinterpreter, found, dresult>>
  /\ UNCHANGED exceptDiscover

\* Err(e) if e.kind() == std::io::ErrorKind::NotFound => {}
RemoveNotFound ==
  /\ dpc = "found"
  /\ found.kind = "Interpreter"
  /\ workspace.venv.state = "absent"
  /\ dcalls' = dcalls \o <<"remove_dir_all", "remove_dir_all: NotFound">>
  /\ dpc' = "create"
  /\ UNCHANGED <<python_arg, workspace, python_request, dinterpreter, found, dresult>>
  /\ UNCHANGED exceptDiscover

\* Faulty variant of RemoveError: the removal error is tolerated like NotFound.
RemoveErrorTolerated ==
  /\ dpc = "found"
  /\ found.kind = "Interpreter"
  /\ workspace.venv.state # "absent"
  /\ dcalls' = dcalls \o <<"remove_dir_all", "remove_dir_all: other error">>
  /\ dpc' = "create"
  /\ UNCHANGED <<python_arg, workspace, python_request, dinterpreter, found, dresult>>
  /\ UNCHANGED exceptDiscover

\* Err(e) => return Err(e.into()): the directory is left as it was.
RemoveError ==
  /\ dpc = "found"
  /\ found.kind = "Interpreter"
  /\ workspace.venv.state # "absent"
  /\ dcalls' = dcalls \o <<"remove_dir_all", "remove_dir_all: other error">>
  /\ DiscoverFinish("Err", "Io", NoVenv)
  /\ UNCHANGED <<python_arg, workspace, python_request, dinterpreter, found>>
  /\ UNCHANGED exceptDiscover

\* Ok(uv_virtualenv::create_venv(&venv, interpreter, Prompt::None, false, false)?)
CreateVenv ==
  /\ dpc = "create"
  /\ dcalls' = dcalls \o <<"Creating virtualenv", "create_venv">>
  /\ workspace' = [workspace EXCEPT !.venv = CreatedVenv(found.version)]
  /\ DiscoverFinish("Ok", "none", CreatedVenv(found.version))
  /\ UNCHANGED <<python_arg, python_request, dinterpreter, found>>
  /\ UNCHANGED exceptDiscover

\* create_venv(..)? fails.
CreateVenvError ==
  /\ dpc = "create"
  /\ dcalls' = dcalls \o <<"Creating virtualenv", "create_venv", "create_venv: error">>
  /\ DiscoverFinish("Err", "Virtualenv", NoVenv)
  /\ UNCHANGED <<python_arg, workspace, python_request, dinterpreter, found>>
  /\ UNCHANGED exceptDiscover

NextDiscover ==
  \/ \E request \in VersionRequests \cup {NoPythonRequest} : DiscoverBegin(request)
  \/ FindRequiresPython
  \/ FindRequiresPythonError
  \/ RequestExplicit
  \/ RequestFromVersionFile
  \/ RequestVersionFileError
  \/ RequestFromRequiresPython
  \/ ProbeCompatible
  \/ ProbeIncompatible
  \/ ProbeMissing
  \/ ProbeInterpreterNotFound
  \/ ProbeError
  \/ \E version \in PyVersions : DiscoverFindOrFetch(version)
  \/ DiscoverFindOrFetchError
  \/ ValidateIncompatible
  \/ ValidateOk
  \/ InitEnvironmentError
  \/ InitEnvironmentExisting
  \/ RemoveOk
  \/ RemoveNotFound
  \/ RemoveError
  \/ CreateVenv
  \/ CreateVenvError

(***************************************************************************)
(* The tool command: run and parse_target.                                  *)
(***************************************************************************)
MaxTargetLen == 4

\* The characters of a target: a letter, two digits, the version separator and a
\* character that no package name and no version contains.
Chars == {"t", "0", "1", "@", "/"}
Digits == {"0", "1"}
NameChars == {"t", "0", "1"}

RECURSIVE StringsOfLen(_)
StringsOfLen(n) ==
  IF n = 0 THEN {<<>>}
  ELSE {Append(s, c) : s \in StringsOfLen(n - 1), c \in Chars}

Targets == UNION {StringsOfLen(n) : n \in 0..MaxTargetLen}

\* target_str.split_once('@'): the position of the first '@', 0 if there is none.
FirstAt(s) ==
  IF \E i \in 1..Len(s) : s[i] = "@"
  THEN CHOOSE i \in 1..Len(s) : s[i] = "@" /\ \A j \in 1..(i - 1) : s[j] # "@"
  ELSE 0

\* PackageName::from_str(name).is_ok(): letters and digits, not empty.
ValidPackageName(name) ==
  Len(name) > 0 /\ \A i \in 1..Len(name) : name[i] \in NameChars

\* Version::from_str(version).is_ok(): a release number.
ValidVersion(version) ==
  Len(version) > 0 /\ \A i \in 1..Len(version) : version[i] \in Digits

\* format!("{version}") of the parsed Version: the release number in normal form,
\* without leading zeros.
RECURSIVE VersionDisplay(_)
VersionDisplay(version) ==
  IF Len(version) > 1 /\ version[1] = "0" THEN VersionDisplay(Tail(version)) ELSE version

\* The external command: no target, a target that is not UTF-8, or a target string.
NoCommand == [present |-> FALSE, utf8 |-> TRUE, target |-> <<>>]
Commands ==
  {NoCommand, [present |-> TRUE, utf8 |-> FALSE, target |-> <<>>]}
    \cup {[present |-> TRUE, utf8 |-> TRUE, target |-> s] : s \in Targets}

NoParse == [status |-> "none", command |-> <<>>, requirement |-> <<>>]
Whole(target) == [status |-> "Ok", command |-> target, requirement |-> target]

\* Faulty variant of parse_target: the version text is not checked.
parse_target_unchecked_version(cmd) ==
  LET s == cmd.target
      i == FirstAt(s)
      name == SubSeq(s, 1, i - 1)
      version == SubSeq(s, i + 1, Len(s))
  IN IF ~cmd.utf8 THEN [NoParse EXCEPT !.status = "Err"]
     ELSE IF i = 0 THEN Whole(s)
     ELSE IF version = <<>> THEN Whole(s)
     ELSE IF ~ValidPackageName(name) THEN Whole(s)
     ELSE [status |-> "Ok", command |-> name,
           requirement |-> name \o <<"=", "=">> \o version]

\* Faulty variant of parse_target: the tag stays in the command name.
parse_target_keeps_tag(cmd) ==
  LET s == cmd.target
      i == FirstAt(s)
      name == SubSeq(s, 1, i - 1)
      version == SubSeq(s, i + 1, Len(s))
  IN IF ~cmd.utf8 THEN [NoParse EXCEPT !.status = "Err"]
     ELSE IF i = 0 THEN Whole(s)
     ELSE IF version = <<>> THEN Whole(s)
     ELSE IF ~ValidPackageName(name) THEN Whole(s)
     ELSE IF ValidVersion(version)
          THEN [status |-> "Ok", command |-> s,
                requirement |-> name \o <<"=", "=">> \o VersionDisplay(version)]
     ELSE Whole(s)

\* parse_target: a command name and a requirement.
parse_target(cmd) ==
  LET s == cmd.target
      i == FirstAt(s)
      name == SubSeq(s, 1, i - 1)
      version == SubSeq(s, i + 1, Len(s))
  IN IF ~cmd.utf8 THEN [NoParse EXCEPT !.status = "Err"]
     ELSE IF i = 0 THEN Whole(s)
     ELSE IF version = <<>> THEN Whole(s)
     ELSE IF ~ValidPackageName(name) THEN Whole(s)
     ELSE IF ValidVersion(version)
          THEN [status |-> "Ok", command |-> name,
                requirement |-> name \o <<"=", "=">> \o VersionDisplay(version)]
     ELSE Whole(s)

\* Option<String>: the --from option.
NoFrom == [some |-> FALSE, value |-> <<>>]
FromOptions == {NoFrom, [some |-> TRUE, value |-> <<"t">>]}

\* ExitStatus, or the error run returned.
NoRResult == [status |-> "none", exit |-> "none", error |-> "none"]
RunOk(exit) == [status |-> "Ok", exit |-> exit, error |-> "none"]
RunErr(e) == [status |-> "Err", exit |-> "none", error |-> e]

\* How a child that was waited for ended.
ChildExits == {"success", "nonzero", "signal"}

InitRun ==
  /\ rpc = "idle"
  /\ command = NoCommand
  /\ from_arg = NoFrom
  /\ executable = <<>>
  /\ requirement = <<>>
  /\ child = "none"
  /\ rresult = NoRResult
  /\ rcalls = <<>>

\* No tool command is running.
RunIdle == InitRun

RCalled(c) == \E i \in 1..Len(rcalls) : rcalls[i] = c

RunFinish(res) ==
  /\ rresult' = res
  /\ rpc' = "done"

\* run(command, from, ..): let (target, args) = command.split();
RunBegin(cmd, f) ==
  /\ rpc = "idle"
  /\ command' = cmd
  /\ from_arg' = f
  /\ rpc' = "target"
  /\ UNCHANGED <<executable, requirement, child, rresult, rcalls>>
  /\ UNCHANGED exceptRun

\* let Some(target) = target else { return Err("No tool command provided") };
RunNoTarget ==
  /\ rpc = "target"
  /\ ~command.present
  /\ RunFinish(RunErr("No tool command provided"))
  /\ UNCHANGED <<command, from_arg, executable, requirement, child, rcalls>>
  /\ UNCHANGED exceptRun

\* Faulty variant of RunFromGiven: the target is parsed although --from was given.
RunFromGivenParsesTarget ==
  /\ rpc = "target"
  /\ command.present
  /\ from_arg.some
  /\ executable' = parse_target(command).command
  /\ requirement' = from_arg.value
  /\ rpc' = "environment"
  /\ UNCHANGED <<command, from_arg, child, rresult, rcalls>>
  /\ UNCHANGED exceptRun

\* if let Some(from) = from: the target is the command, --from the requirement.
RunFromGiven ==
  /\ rpc = "target"
  /\ command.present
  /\ from_arg.some
  /\ executable' = command.target
  /\ requirement' = from_arg.value
  /\ rpc' = "environment"
  /\ UNCHANGED <<command, from_arg, child, rresult, rcalls>>
  /\ UNCHANGED exceptRun

\* parse_target(target)? is Ok.
RunParseTarget ==
  /\ rpc = "target"
  /\ command.present
  /\ ~from_arg.some
  /\ parse_target(command).status = "Ok"
  /\ executable' = parse_target(command).command
  /\ requirement' = parse_target(command).requirement
  /\ rcalls' = Append(rcalls, "parse_target")
  /\ rpc' = "environment"
  /\ UNCHANGED <<command, from_arg, child, rresult>>
  /\ UNCHANGED exceptRun

\* parse_target(target)? fails: the target is not a UTF-8 string.
RunParseTargetError ==
  /\ rpc = "target"
  /\ command.present
  /\ ~from_arg.some
  /\ parse_target(command).status = "Err"
  /\ rcalls' = Append(rcalls, "parse_target")
  /\ RunFinish(RunErr("Tool command could not be parsed as UTF-8 string"))
  /\ UNCHANGED <<command, from_arg, executable, requirement, child>>
  /\ UNCHANGED exceptRun

\* get_or_create_environment(&from, &with, ..).await? fails.
RunEnvironmentError ==
  /\ rpc = "environment"
  /\ rcalls' = Append(rcalls, "get_or_create_environment")
  /\ RunFinish(RunErr("get_or_create_environment"))
  /\ UNCHANGED <<command, from_arg, executable, requirement, child>>
  /\ UNCHANGED exceptRun

\* get_or_create_environment(..).await? is Ok((from, environment)).
RunEnvironment ==
  /\ rpc = "environment"
  /\ rcalls' = Append(rcalls, "get_or_create_environment")
  /\ rpc' = "paths"
  /\ UNCHANGED <<command, from_arg, executable, requirement, child, rresult>>
  /\ UNCHANGED exceptRun

\* std::env::join_paths(..)? for PATH or PYTHONPATH fails.
RunJoinPathsError ==
  /\ rpc = "paths"
  /\ RunFinish(RunErr("join_paths"))
  /\ UNCHANGED <<command, from_arg, executable, requirement, child, rcalls>>
  /\ UNCHANGED exceptRun

\* PATH and PYTHONPATH are set; warn_executable_not_provided_by_package(..) warns
\* or not, and returns nothing.
RunPrepare(warns) ==
  /\ rpc = "paths"
  /\ rcalls' = IF warns THEN Append(rcalls, "warn_user") ELSE rcalls
  /\ rpc' = "spawn"
  /\ UNCHANGED <<command, from_arg, executable, requirement, child, rresult>>
  /\ UNCHANGED exceptRun

\* process.spawn() is Ok(handle).
SpawnOk ==
  /\ rpc = "spawn"
  /\ rcalls' = Append(rcalls, "spawn")
  /\ child' = "running"
  /\ rpc' = "wait"
  /\ UNCHANGED <<command, from_arg, executable, requirement, rresult>>
  /\ UNCHANGED exceptRun

\* Err(err) if err.kind() == std::io::ErrorKind::NotFound
SpawnNotFound ==
  /\ rpc = "spawn"
  /\ rcalls' = rcalls \o <<"spawn", "spawn: NotFound">>
  /\ rpc' = "entrypoints"
  /\ UNCHANGED <<command, from_arg, executable, requirement, child, rresult>>
  /\ UNCHANGED exceptRun

\* Faulty variant of SpawnError: every spawn failure gets the entry-point report.
SpawnErrorReported ==
  /\ rpc = "spawn"
  /\ rcalls' = rcalls \o <<"spawn", "spawn: other">>
  /\ rpc' = "entrypoints"
  /\ UNCHANGED <<command, from_arg, executable, requirement, child, rresult>>
  /\ UNCHANGED exceptRun

\* Err(err) => Err(err), with the context "Failed to spawn".
SpawnError ==
  /\ rpc = "spawn"
  /\ rcalls' = rcalls \o <<"spawn", "spawn: other">>
  /\ RunFinish(RunErr("Failed to spawn"))
  /\ UNCHANGED <<command, from_arg, executable, requirement, child>>
  /\ UNCHANGED exceptRun

\* get_entrypoints(&from.name, &environment) is Ok: report, return Ok(Failure).
EntrypointsReported(some) ==
  /\ rpc = "entrypoints"
  /\ rcalls' = rcalls \o <<"get_entrypoints", "The executable was not found">>
                  \o (IF some THEN <<"The following executables are provided">> ELSE <<>>)
  /\ RunFinish(RunOk("Failure"))
  /\ UNCHANGED <<command, from_arg, executable, requirement, child>>
  /\ UNCHANGED exceptRun

\* get_entrypoints(..) is Err: logged, and the spawn error is returned.
EntrypointsError ==
  /\ rpc = "entrypoints"
  /\ rcalls' = rcalls \o <<"get_entrypoints", "get_entrypoints: error">>
  /\ RunFinish(RunErr("Failed to spawn"))
  /\ UNCHANGED <<command, from_arg, executable, requirement, child>>
  /\ UNCHANGED exceptRun

\* Faulty variant of ExitStatusOf: a signal exit is passed off as success.
ExitStatusOfCodeOnly(exit) == IF exit = "nonzero" THEN "Failure" ELSE "Success"

\* if status.success() { Ok(ExitStatus::Success) } else { Ok(ExitStatus::Failure) }
ExitStatusOf(exit) == IF exit = "success" THEN "Success" ELSE "Failure"

\* handle.wait().await is Ok(status).
Wait(exit) ==
  /\ rpc = "wait"
  /\ child' = exit
  /\ rcalls' = Append(rcalls, "wait")
  /\ RunFinish(RunOk(ExitStatusOf(exit)))
  /\ UNCHANGED <<command, from_arg, executable, requirement>>
  /\ UNCHANGED exceptRun

\* handle.wait().await fails: "Child process disappeared".
WaitError ==
  /\ rpc = "wait"
  /\ child' = "lost"
  /\ rcalls' = Append(rcalls, "wait")
  /\ RunFinish(RunErr("Child process disappeared"))
  /\ UNCHANGED <<command, from_arg, executable, requirement>>
  /\ UNCHANGED exceptRun

NextRun ==
  \/ /\ rpc = "idle"
     /\ \E cmd \in Commands, f \in FromOptions : RunBegin(cmd, f)
  \/ RunNoTarget
  \/ RunFromGiven
  \/ RunParseTarget
  \/ RunParseTargetError
  \/ RunEnvironmentError
  \/ RunEnvironment
  \/ RunJoinPathsError
  \/ \E warns \in BOOLEAN : RunPrepare(warns)
  \/ SpawnOk
  \/ SpawnNotFound
  \/ SpawnError
  \/ \E some \in BOOLEAN : EntrypointsReported(some)
  \/ EntrypointsError
  \/ \E exit \in ChildExits : Wait(exit)
  \/ WaitError

(***************************************************************************)
(* Launching the child: the search paths of run, and                        *)
(* warn_executable_not_provided_by_package.                                 *)
(***************************************************************************)
MaxEnvLen == 3
MaxProviders == 2

\* The characters of an inherited variable: a letter and the path separator.
PathChars == {"a", ":"}

RECURSIVE PathStringsOfLen(_)
PathStringsOfLen(n) ==
  IF n = 0 THEN {<<>>}
  ELSE {Append(s, c) : s \in PathStringsOfLen(n - 1), c \in PathChars}

\* std::env::var_os(name): None when the variable is unset, else its value.
Unset == [some |-> FALSE, value |-> <<>>]
VarValues ==
  {Unset} \cup {[some |-> TRUE, value |-> s] :
                  s \in UNION {PathStringsOfLen(n) : n \in 0..MaxEnvLen}}

\* The process environment run inherits.
Environs == [PATH : VarValues, PYTHONPATH : VarValues]

\* The PythonEnvironment get_or_create_environment returned: its scripts directory
\* and its site-packages directories. A directory name may hold a ':'.
PythonEnvironments ==
  {[scripts |-> <<"s">>, site_packages |-> <<(<<"p">>)>>],
   [scripts |-> <<"s">>, site_packages |-> <<(<<"p">>), (<<"q">>)>>],
   [scripts |-> <<"s", ":">>, site_packages |-> <<(<<"p">>)>>],
   [scripts |-> <<"s">>, site_packages |-> <<(<<"p", ":">>)>>]}
NoPythonEnvironment == [scripts |-> <<>>, site_packages |-> <<>>]

\* std::env::split_paths (Unix): the pieces of the value between the separators;
\* the empty value is one empty piece.
RECURSIVE split_paths(_)
split_paths(s) ==
  IF \E i \in 1..Len(s) : s[i] = ":"
  THEN LET i == CHOOSE k \in 1..Len(s) : s[k] = ":" /\ \A j \in 1..(k - 1) : s[j] # ":"
       IN <<SubSeq(s, 1, i - 1)>> \o split_paths(SubSeq(s, i + 1, Len(s)))
  ELSE <<s>>

RECURSIVE Joined(_)
Joined(paths) ==
  IF paths = <<>> THEN <<>>
  ELSE IF Len(paths) = 1 THEN paths[1]
  ELSE paths[1] \o <<":">> \o Joined(Tail(paths))

\* std::env::join_paths (Unix): the paths with a separator between them; an error
\* when a path holds the separator.
join_paths(paths) ==
  IF \E i \in 1..Len(paths) : \E j \in 1..Len(paths[i]) : paths[i][j] = ":"
  THEN [status |-> "Err", value |-> <<>>]
  ELSE [status |-> "Ok", value |-> Joined(paths)]

\* std::env::var_os(name).as_ref().iter().flat_map(std::env::split_paths)
InheritedEntries(v) == IF v.some THEN split_paths(v.value) ELSE <<>>

\* Faulty variant of PathEntries: the scripts directory goes after the inherited
\* entries.
PathEntriesInheritedFirst(env, inherited) ==
  InheritedEntries(inherited) \o <<env.scripts>>

\* std::iter::once(environment.scripts().to_path_buf()).chain(..)
PathEntries(env, inherited) == <<env.scripts>> \o InheritedEntries(inherited)

\* environment.site_packages().map(PathBuf::from).chain(..)
PythonPathEntries(env, inherited) == env.site_packages \o InheritedEntries(inherited)

\* impl Display for ToolRunCommand
ToolRunCommands == {"Uvx", "ToolRun"}
ToolRunCommandDisplay(c) == IF c = "Uvx" THEN <<"uvx">> ELSE <<"uv", "tool", "run">>

\* The names of the packages installed in the environment, the requested one first.
LaunchFrom == "black"
LaunchExecutable == "blackd"
ProviderNames == {"black", "isort", "flake8"}

RECURSIVE DistinctSeqs(_, _)
DistinctSeqs(S, n) ==
  IF n = 0 THEN {<<>>}
  ELSE {<<>>} \cup {t \in {<<x>> \o s : x \in S, s \in DistinctSeqs(S, n - 1)} :
                      \A i \in 2..Len(t) : t[i] # t[1]}

\* matching_packages(executable, environment): the installed packages that provide
\* the executable, or an error.
MatchingResults ==
  {[status |-> "Err", packages |-> <<>>]}
    \cup {[status |-> "Ok", packages |-> s] : s \in DistinctSeqs(ProviderNames, MaxProviders)}
NoMatching == [status |-> "none", packages |-> <<>>]

\* Faulty variant of warn_executable_not_provided_by_package: the from package is
\* not looked for among the providers.
warn_without_from_check(exe, from_package, m, invocation_source) ==
  IF m.status # "Ok" THEN <<>>
  ELSE IF Len(m.packages) = 0
       THEN <<[kind |-> "not provided", executable |-> exe, from |-> from_package,
               providers |-> <<>>, suggested_command |-> <<>>]>>
  ELSE IF Len(m.packages) = 1
       THEN <<[kind |-> "dependency", executable |-> exe, from |-> from_package,
               providers |-> m.packages,
               suggested_command |-> ToolRunCommandDisplay(invocation_source)
                                       \o <<"--from", m.packages[1], exe>>]>>
  ELSE <<[kind |-> "dependencies", executable |-> exe, from |-> from_package,
          providers |-> m.packages,
          suggested_command |-> ToolRunCommandDisplay(invocation_source)
                                  \o <<"--from", "PKG", exe>>]>>

\* warn_executable_not_provided_by_package: the warnings it gives for the result m
\* of matching_packages.
warn_executable_not_provided_by_package(exe, from_package, m, invocation_source) ==
  IF m.status # "Ok" THEN <<>>
  ELSE IF \E i \in 1..Len(m.packages) : m.packages[i] = from_package THEN <<>>
  ELSE IF Len(m.packages) = 0
       THEN <<[kind |-> "not provided", executable |-> exe, from |-> from_package,
               providers |-> <<>>, suggested_command |-> <<>>]>>
  ELSE IF Len(m.packages) = 1
       THEN <<[kind |-> "dependency", executable |-> exe, from |-> from_package,
               providers |-> m.packages,
               suggested_command |-> ToolRunCommandDisplay(invocation_source)
                                       \o <<"--from", m.packages[1], exe>>]>>
  ELSE <<[kind |-> "dependencies", executable |-> exe, from |-> from_package,
          providers |-> m.packages,
          suggested_command |-> ToolRunCommandDisplay(invocation_source)
                                  \o <<"--from", "PKG", exe>>]>>

InitLaunch ==
  /\ lpc = "idle"
  /\ environ = [PATH |-> Unset, PYTHONPATH |-> Unset]
  /\ tool_environment = NoPythonEnvironment
  /\ invocation = "Uvx"
  /\ process_env = [PATH |-> Unset, PYTHONPATH |-> Unset]
  /\ matching = NoMatching
  /\ warnings = <<>>
  /\ spawned = "none"
  /\ lresult = "none"

\* No child is being launched.
LaunchIdle == InitLaunch

\* run, after get_or_create_environment(..).await? gave the environment:
\* let mut process = Command::new(executable.as_ref());
LaunchBegin(env, inherited, src) ==
  /\ lpc = "idle"
  /\ tool_environment' = env
  /\ environ' = inherited
  /\ invocation' = src
  /\ lpc' = "path"
  /\ UNCHANGED <<process_env, matching, warnings, spawned, lresult>>
  /\ UNCHANGED exceptLaunch

\* let new_path = std::env::join_paths(..)?; process.env("PATH", new_path);
NewPath ==
  /\ lpc = "path"
  /\ join_paths(PathEntries(tool_environment, environ.PATH)).status = "Ok"
  /\ process_env' = [process_env EXCEPT !.PATH =
       [some |-> TRUE, value |-> join_paths(PathEntries(tool_environment, environ.PATH)).value]]
  /\ lpc' = "python_path"
  /\ UNCHANGED <<environ, tool_environment, invocation, matching, warnings, spawned, lresult>>
  /\ UNCHANGED exceptLaunch

\* std::env::join_paths(..)? for PATH fails: run returns the error.
NewPathError ==
  /\ lpc = "path"
  /\ join_paths(PathEntries(tool_environment, environ.PATH)).status = "Err"
  /\ lresult' = "Err_join_paths"
  /\ lpc' = "done"
  /\ UNCHANGED <<environ, tool_environment, invocation, process_env, matching, warnings,
                 spawned>>
  /\ UNCHANGED exceptLaunch

\* let new_python_path = std::env::join_paths(..)?;
\* process.env("PYTHONPATH", new_python_path);
NewPythonPath ==
  /\ lpc = "python_path"
  /\ join_paths(PythonPathEntries(tool_environment, environ.PYTHONPATH)).status = "Ok"
  /\ process_env' = [process_env EXCEPT !.PYTHONPATH =
       [some |-> TRUE,
        value |-> join_paths(PythonPathEntries(tool_environment, environ.PYTHONPATH)).value]]
  /\ lpc' = "warn"
  /\ UNCHANGED <<environ, tool_environment, invocation, matching, warnings, spawned, lresult>>
  /\ UNCHANGED exceptLaunch

\* std::env::join_paths(..)? for PYTHONPATH fails: run returns the error.
NewPythonPathError ==
  /\ lpc = "python_path"
  /\ join_paths(PythonPathEntries(tool_environment, environ.PYTHONPATH)).status = "Err"
  /\ lresult' = "Err_join_paths"
  /\ lpc' = "done"
  /\ UNCHANGED <<environ, tool_environment, invocation, process_env, matching, warnings,
                 spawned>>
  /\ UNCHANGED exceptLaunch

\* warn_executable_not_provided_by_package(&executable, &from.name, &environment,
\* &invocation_source); it returns nothing.
LaunchWarn(m) ==
  /\ lpc = "warn"
  /\ matching' = m
  /\ warnings' = warn_executable_not_provided_by_package(LaunchExecutable, LaunchFrom, m,
                                                         invocation)
  /\ lpc' = "spawn"
  /\ UNCHANGED <<environ, tool_environment, invocation, process_env, spawned, lresult>>
  /\ UNCHANGED exceptLaunch

\* process.spawn(): the child starts with the environment built for it, or the spawn
\* fails.
LaunchSpawn(outcome) ==
  /\ lpc = "spawn"
  /\ spawned' = outcome
  /\ lresult' = IF outcome = "Ok" THEN "none" ELSE "Err_spawn"
  /\ lpc' = "done"
  /\ UNCHANGED <<environ, tool_environment, invocation, process_env, matching, warnings>>
  /\ UNCHANGED exceptLaunch

SpawnOutcomes == {"Ok", "NotFound", "Err"}

NextLaunch ==
  \/ /\ lpc = "idle"
     /\ \E env \in PythonEnvironments, inherited \in Environs, src \in ToolRunCommands :
          LaunchBegin(env, inherited, src)
  \/ NewPath
  \/ NewPathError
  \/ NewPythonPath
  \/ NewPythonPathError
  \/ \E m \in MatchingResults : LaunchWarn(m)
  \/ \E outcome \in SpawnOutcomes : LaunchSpawn(outcome)

\* The project commands start while no tool run is in progress.
InitProjectRun == InitProject /\ ToolIdle /\ DiscoverIdle /\ RunIdle /\ LaunchIdle

SpecProject == InitProjectRun /\ [][NextProject]_vars

\* One invocation at a time, over every command line.
NextTool == ToolStep(1, FromStrings, WithLists, PythonRequests, BOOLEAN)

\* Tool runs start while no project command is in progress.
InitToolRun == InitTool /\ ProjectIdle /\ DiscoverIdle /\ RunIdle /\ LaunchIdle

SpecTool == InitToolRun /\ [][NextTool]_vars

\* Concurrent invocations of the same command line: the tool `black` with `isort`.
ConcurrentStep(p) == ToolStep(p, {"black"}, {<<"isort">>}, {1}, {FALSE})

NextToolConcurrent == \E p \in Procs : ConcurrentStep(p)

SpecToolConcurrent == InitToolRun /\ [][NextToolConcurrent]_vars

\* Every invocation that can take a step eventually takes one.
FairSpecToolConcurrent ==
  /\ SpecToolConcurrent
  /\ \A p \in Procs : WF_vars(ConcurrentStep(p))

\* One call of get_or_init_environment on every workspace.
InitDiscoverRun == InitDiscover /\ ProjectIdle /\ ToolIdle /\ RunIdle /\ LaunchIdle

SpecDiscover == InitDiscoverRun /\ [][NextDiscover]_vars

\* One call of run on every command.
InitRunRun == InitRun /\ ProjectIdle /\ ToolIdle /\ DiscoverIdle /\ LaunchIdle

SpecRun == InitRunRun /\ [][NextRun]_vars

\* One launch of the child in every inherited environment.
InitLaunchRun == InitLaunch /\ ProjectIdle /\ ToolIdle /\ DiscoverIdle /\ RunIdle

SpecLaunch == InitLaunchRun /\ [][NextLaunch]_vars

\* The steps of resolve_environment.
NextResolveEnvironment ==
  \/ /\ pc = "idle"
     /\ \E reqs \in RequirementSets, src \in BOOLEAN, up \in Policies :
          ResolveEnvBegin(reqs, src, up)
  \/ ResolveEnvTags
  \/ ResolveEnvFlatIndex
  \/ ResolveEnvResolve

\* This process runs no project command, no tool invocation, no discovery.
ProjectOff ==
  /\ installed = [p \in Pkgs |-> 0]
  /\ pc = "off"
  /\ op = "none"
  /\ spec = NoSpec
  /\ settings = NoSettings
  /\ site_packages = NoSnapshot
  /\ resolution = NoResolution
  /\ pending = {}
  /\ modified = {}
  /\ calls = <<>>
  /\ result = "none"
  /\ check = "none"
  /\ alreadySatisfied = FALSE
  /\ prevSync = NoResolution
  /\ second = FALSE
  /\ prevInterrupted = NoInterrupted
  /\ retry = "none"
  /\ resolver_call = NoResolverCall

ToolOff ==
  /\ tpc = [p \in Procs |-> "off"]
  /\ req = [p \in Procs |-> NoRequest]
  /\ interpreter = [p \in Procs |-> 0]
  /\ requirements = [p \in Procs |-> <<>>]
  /\ existing = [p \in Procs |-> NoEnvironment]
  /\ tresult = [p \in Procs |-> NoResult]
  /\ tcalls = [p \in Procs |-> <<>>]
  /\ net = [p \in Procs |-> {}]
  /\ lock = 0
  /\ registry = [t \in {1} |-> NoEnvironment]
  /\ cache = {}
  /\ runs = 0

DiscoverOff ==
  /\ dpc = "off"
  /\ python_arg = NoPythonRequest
  /\ workspace = [requires_python |-> 0,
                  version_file |-> [state |-> "absent", request |-> NoPythonRequest],
                  venv |-> NoVenv]
  /\ python_request = NoPythonRequest
  /\ dinterpreter = 0
  /\ found = NoFound
  /\ dresult = NoDResult
  /\ dcalls = <<>>

\* The whole core: one process runs project commands (update_environment,
\* sync_environment, resolve_environment), or tool invocations, or one discovery.
InitCore ==
  \/ InitProject /\ ToolOff /\ DiscoverOff /\ RunIdle /\ LaunchIdle
  \/ ProjectOff /\ InitTool /\ DiscoverOff /\ RunIdle /\ LaunchIdle
  \/ ProjectOff /\ ToolOff /\ InitDiscover /\ RunIdle /\ LaunchIdle

NextCore ==
  \/ NextProject
  \/ NextResolveEnvironment
  \/ NextTool
  \/ NextDiscover

SpecCore == InitCore /\ [][NextCore]_vars

(***************************************************************************)
(* Properties of the project pipeline.                                      *)
(***************************************************************************)

\* C1: in update_environment, when the satisfaction check returns Fresh the call has
\* returned Ok(venv) at once: the flat index was not fetched, neither the resolver nor
\* the installer was called, and the installed set is the one the call started with.
C1_FreshReturnsImmediately ==
  (op = "update" /\ check = "Fresh") =>
    /\ pc = "done"
    /\ result = "Ok"
    /\ ~Called("flat_index")
    /\ ~Called("resolve")
    /\ ~Called("install")
    /\ installed = site_packages
    /\ modified = {}

\* A Fresh return for a non-empty requirement set.
C1_Witness ==
  /\ op = "update"
  /\ check = "Fresh"
  /\ pc = "done"
  /\ spec.requirements # {}

\* C2: update_environment consults the satisfaction check only with no source trees,
\* no reinstall and no upgrade; with any of them, a call that ends without having
\* reached the resolver (the installer) ended with the error of a step before it, also
\* when the environment already met every requirement.
C2_CheckOnlyWhenNotForced ==
  op = "update" =>
    /\ Called("satisfies") =>
         ~spec.source_trees /\ settings.reinstall = "None" /\ settings.upgrade = "None"
    /\ (spec.source_trees \/ settings.reinstall # "None" \/ settings.upgrade # "None") =>
         /\ check = "none"
         /\ (pc = "done" /\ ~Called("resolve")) =>
              result \in {"Err_site_packages", "Err_tags", "Err_flat_index"}
         /\ (pc = "done" /\ ~Called("install")) =>
              result \in {"Err_site_packages", "Err_tags", "Err_flat_index", "Err_resolve"}

\* An upgrade alone forces resolution and installation of an already satisfied environment.
C2_Witness ==
  /\ op = "update"
  /\ ~spec.source_trees /\ settings.reinstall = "None" /\ settings.upgrade = "All"
  /\ alreadySatisfied
  /\ pc = "done" /\ result = "Ok"
  /\ Called("resolve") /\ Called("install")

\* C3: once the installer has returned Ok for Resolution R (in sync_environment or in
\* the resolve+install branch of update_environment), the installed set equals R.
C3_InstalledEqualsResolution ==
  (Called("install") /\ (pc = "diagnose" \/ (pc = "done" /\ result = "Ok"))) =>
    installed = resolution

\* A successful run that removed an extraneous package and installed or replaced another.
C3_Witness ==
  /\ Called("install") /\ pc = "done" /\ result = "Ok"
  /\ \E p \in Pkgs : site_packages[p] # 0 /\ resolution[p] = 0 /\ installed[p] = 0
  /\ \E q \in Pkgs : resolution[q] # 0 /\ site_packages[q] # resolution[q]
                     /\ installed[q] = resolution[q]

\* C4 as stated: a sync_environment that repeats the preceding successful one with the
\* same Resolution leaves the installed set as it was and installs and removes nothing.
C4_SecondSyncTouchesNothing ==
  (op = "sync" /\ second /\ pc = "done" /\ result = "Ok") =>
    /\ installed = site_packages
    /\ modified = {}

\* C4, amended: the repeated sync_environment leaves the installed set as it was at
\* every step, and without a reinstall policy it installs and removes nothing.
C4_SecondSyncIdempotent ==
  (op = "sync" /\ second /\ site_packages # NoSnapshot) =>
    /\ installed = site_packages
    /\ settings.reinstall = "None" => (pending = {} /\ modified = {})
    /\ (pc = "done" /\ result = "Ok") => installed = resolution

\* A repeated sync of a non-empty Resolution that completed.
C4_Witness ==
  /\ op = "sync" /\ second /\ pc = "done" /\ result = "Ok"
  /\ \E p \in Pkgs : resolution[p] # 0
  /\ settings.reinstall = "None"

(***************************************************************************)
(* Properties of the tool-run pipeline.                                     *)
(***************************************************************************)

\* The request of invocation p as its command line gives it, resolved again from the
\* from and with strings.
RequestRequirements(p) == ResolveRequirements(<<req[p].from>> \o req[p].with)
RequestFingerprint(p) == Fingerprint(RequestRequirements(p), interpreter[p])

\* The registry's environment of the tool the request names.
RegistryEnvironment(p) ==
  LET name == ParseRequirement(req[p].from).pkg
  IN IF name \in DOMAIN registry THEN registry[name] ELSE NoEnvironment

\* The tool is installed, and its installed set Fresh-satisfies the from+with set.
InstalledExactly(p) ==
  /\ RegistryEnvironment(p) # NoEnvironment
  /\ Satisfies(RegistryEnvironment(p).installed, Range(RequestRequirements(p))) = "Fresh"

Returned(p) == tpc[p] = "done" /\ tresult[p].status = "Ok"

FromCachedGetOrCreate(p) ==
  tresult[p].source = "cache" /\ TCalled(p, "cached_get_or_create")

\* C5: get_or_create_environment returns the registry's environment only if isolation
\* is not forced, the environment's interpreter meets the Python request and its
\* installed set Fresh-satisfies from+with; when one of the three fails, what it
\* returns comes from CachedEnvironment::get_or_create.
C5_ReuseOnlyIfCompatible ==
  \A p \in Procs : Returned(p) =>
    /\ tresult[p].source = "registry" =>
         /\ ~req[p].isolated
         /\ InstalledExactly(p)
         /\ PythonSatisfied(req[p].python, RegistryEnvironment(p).interpreter)
         /\ existing[p] = RegistryEnvironment(p)
         /\ ~TCalled(p, "cached_get_or_create")
    /\ ( \/ req[p].isolated
         \/ ~InstalledExactly(p)
         \/ ~PythonSatisfied(req[p].python, RegistryEnvironment(p).interpreter) )
       => FromCachedGetOrCreate(p)

\* The installed tool is reused for a request with a Python request and a with entry.
C5_Witness ==
  \E p \in Procs :
    /\ Returned(p) /\ tresult[p].source = "registry"
    /\ req[p].python # 0 /\ req[p].with # <<>>

InBlock(p) == tpc[p] \in {"locked", "found"}

\* A step in which invocation p reads the registry or an installed tool's environment.
ReadsRegistry(p) ==
  /\ Len(tcalls'[p]) > Len(tcalls[p])
  /\ \E i \in (Len(tcalls[p]) + 1)..Len(tcalls'[p]) :
       tcalls'[p][i] \in {"get_environment", "site_packages", "satisfies"}

\* C7: at most one invocation is inside its guarded block, it holds the lock, and
\* every read of the registry is made by the lock's holder while no other invocation
\* is inside its block.
C7_BlocksNeverOverlap ==
  /\ [](\A p, q \in Procs : (InBlock(p) /\ InBlock(q)) => p = q)
  /\ [](\A p \in Procs : InBlock(p) => lock = p)
  /\ [][\A p \in Procs : ReadsRegistry(p) =>
          (lock = p /\ \A q \in Procs \ {p} : ~InBlock(q))]_vars

\* One invocation is inside its block while another waits for the lock.
C7_Witness ==
  \E p, q \in Procs : p # q /\ InBlock(p) /\ lock = p /\ tpc[q] = "acquire"

\* C8: the lock is held only inside the guarded block, so every exit (reuse, fall
\* through, error) has released it; and an invocation waiting for it acquires it.
C8_LockReleasedOnEveryExit ==
  /\ [](\A p \in Procs : lock = p => InBlock(p))
  /\ [](lock \in Procs \cup {0})
  /\ \A p \in Procs : (tpc[p] = "acquire") ~> (lock = p)

\* An error exit of the block has left the lock free while another invocation waits.
C8_Witness ==
  \E p, q \in Procs :
    /\ p # q
    /\ tpc[p] = "done"
    /\ tresult[p].status \in {"Err_get_environment", "Err_site_packages"}
    /\ lock = 0
    /\ tpc[q] = "acquire"

\* C9: an environment returned from the cache is the entry of the current request's
\* fingerprint; the cache holds one entry per fingerprint, and a request with no
\* entry of its fingerprint gets a newly built one.
C9_CacheFingerprintMatches ==
  /\ \A e1, e2 \in cache : e1.fp = e2.fp => e1 = e2
  /\ \A p \in Procs : (Returned(p) /\ tresult[p].source = "cache") =>
       /\ tresult[p].fp = RequestFingerprint(p)
       /\ \E e \in cache : e.fp = RequestFingerprint(p)
       /\ ~tresult[p].hit =>
            \E e \in cache : /\ e.fp = RequestFingerprint(p)
                             /\ e.from = req[p].from /\ e.with = req[p].with

\* A request with a with entry is served from the cache while the cache holds an
\* entry of another fingerprint.
C9_Witness ==
  \E p \in Procs :
    /\ Returned(p) /\ tresult[p].source = "cache"
    /\ req[p].with # <<>>
    /\ \E e \in cache : e.fp # RequestFingerprint(p)

\* Two with lists of the same length that differ in exactly one entry.
OneEntryChanged(w1, w2) ==
  /\ Len(w1) = Len(w2)
  /\ Cardinality({i \in 1..Len(w1) : w1[i] # w2[i]}) = 1

\* C10 as stated: a request has the fingerprint of the entry built from the same
\* strings and interpreter, and a different fingerprint from every entry built with
\* one with entry changed.
C10_AnyChangedWithChangesFingerprint ==
  \A p \in Procs : (Returned(p) /\ tresult[p].source = "cache") =>
    \A e \in cache :
      (e.from = req[p].from /\ e.interpreter = interpreter[p]) =>
        /\ e.with = req[p].with => e.fp = tresult[p].fp
        /\ OneEntryChanged(e.with, req[p].with) => e.fp # tresult[p].fp

\* C10, amended: a request has the fingerprint of an entry exactly when both resolve
\* to the same requirement list on the same interpreter; so identical strings share
\* an entry, and a changed with entry gives another fingerprint unless it resolves to
\* the same requirement.
C10_FingerprintOfResolvedRequirements ==
  \A p \in Procs : (Returned(p) /\ tresult[p].source = "cache") =>
    \A e \in cache :
      /\ (e.from = req[p].from /\ e.with = req[p].with
            /\ e.interpreter = interpreter[p]) => e.fp = tresult[p].fp
      /\ e.fp = tresult[p].fp <=>
           /\ ResolveRequirements(<<e.from>> \o e.with) = RequestRequirements(p)
           /\ e.interpreter = interpreter[p]

\* A request served by the entry that another spelling of its with entry built.
C10_Witness ==
  \E p \in Procs :
    /\ Returned(p) /\ tresult[p].source = "cache" /\ tresult[p].hit
    /\ \E e \in cache : /\ e.fp = tresult[p].fp
                        /\ e.from = req[p].from /\ e.interpreter = interpreter[p]
                        /\ OneEntryChanged(e.with, req[p].with)

(***************************************************************************)
(* Properties of interpreter discovery.                                     *)
(***************************************************************************)

\* discover has computed the effective request.
RequestComputed == dpc = "probe" \/ DCalled("find_environment")

\* The existing environment has been probed and the directory is as it was then.
Probed == DCalled("find_environment") /\ ~DCalled("remove_dir_all")

\* Discovery has gone on to find-or-fetch.
ProceedsToFindOrFetch == dpc = "fetch" \/ DCalled("find_or_fetch")

\* C11: the effective request is the explicit request if there is one, otherwise the
\* version file's request if there is one, otherwise the range of the project's
\* Requires-Python, or none; the version file is not read when there is an explicit
\* request.
C11_RequestPrecedence ==
  /\ RequestComputed =>
       python_request =
         IF python_arg.some THEN python_arg
         ELSE IF workspace.version_file.state = "present"
              THEN workspace.version_file.request
         ELSE IF workspace.requires_python > 0
              THEN SomeRequest({v \in PyVersions : v >= workspace.requires_python})
         ELSE NoPythonRequest
  /\ python_arg.some => ~DCalled("request_from_version_file")

\* The version file's request is used although the project's Requires-Python would
\* give another one.
C11_Witness ==
  /\ RequestComputed
  /\ ~python_arg.some
  /\ workspace.version_file.state = "present"
  /\ workspace.requires_python > 0
  /\ python_request # SomeRequest({v \in PyVersions : v >= workspace.requires_python})

\* The interpreter of the probed environment meets the effective request and the
\* project's Requires-Python, each met when absent.
ExistingMeetsBoth ==
  /\ python_request.some => workspace.venv.version \in python_request.versions
  /\ workspace.requires_python > 0 => workspace.venv.version >= workspace.requires_python

\* C12: an existing environment that meets the effective request and the project's
\* Requires-Python is returned as FoundInterpreter::Environment without a
\* find-or-fetch call; an existing environment that fails one of the two is not
\* returned, and discovery goes on to find-or-fetch.
C12_CompatibleEnvironmentReturned ==
  /\ found.kind = "Environment" => ~DCalled("find_or_fetch")
  /\ (Probed /\ workspace.venv.state = "ok") =>
       IF ExistingMeetsBoth
       THEN /\ found = FoundEnvironment(workspace.venv.version)
            /\ ~DCalled("find_or_fetch")
       ELSE /\ found.kind # "Environment"
            /\ ProceedsToFindOrFetch
  /\ (Probed /\ found.kind = "Environment") => workspace.venv.state = "ok"

\* An environment is returned that was checked against a request and a requirement.
C12_Witness ==
  /\ found.kind = "Environment"
  /\ python_request.some
  /\ workspace.requires_python > 0
  /\ dpc = "done"

\* C13: an interpreter from find-or-fetch whose version is outside the project's
\* Requires-Python makes discover fail with RequestedPythonIncompatibility carrying
\* that version and the requirement; FoundInterpreter::Interpreter is never outside
\* the requirement.
C13_FetchedInterpreterRevalidated ==
  /\ found.kind = "Interpreter" =>
       /\ found.version = dinterpreter
       /\ workspace.requires_python > 0 => found.version >= workspace.requires_python
  /\ (dpc \in {"found", "create", "done"} /\ dinterpreter > 0
        /\ workspace.requires_python > 0 /\ dinterpreter < workspace.requires_python) =>
       found = [kind |-> "Err", version |-> dinterpreter,
                error |-> "RequestedPythonIncompatibility",
                requirement |-> workspace.requires_python]

\* The call ended with the incompatibility error.
C13_Witness ==
  /\ dpc = "done"
  /\ found.error = "RequestedPythonIncompatibility"
  /\ dresult.error = "RequestedPythonIncompatibility"

\* C14: a missing environment is passed over silently and an environment whose
\* interpreter is gone with a warning, both going on to find-or-fetch; every other
\* probe error ends discover with that error, without find-or-fetch.
C14_ProbeErrors ==
  Probed =>
    /\ workspace.venv.state \in {"absent", "invalid"} =>
         ~DCalled("warn_user") /\ ProceedsToFindOrFetch
    /\ workspace.venv.state = "broken" =>
         DCalled("warn_user") /\ ProceedsToFindOrFetch
    /\ workspace.venv.state = "corrupt" =>
         /\ found = FoundError("Python")
         /\ ~DCalled("find_or_fetch")
         /\ dpc \in {"found", "done"}
         /\ dpc = "done" => dresult.status = "Err" /\ dresult.error = "Python"

\* An environment with a deleted interpreter was warned about and an interpreter
\* fetched.
C14_Witness ==
  /\ Probed
  /\ workspace.venv.state = "broken"
  /\ DCalled("warn_user")
  /\ DCalled("find_or_fetch")

\* C15: when discover returns an existing Environment, get_or_init_environment
\* returns that environment; the directory is not removed, nothing is created, and
\* the workspace stays as it is.
C15_ExistingEnvironmentUnchanged ==
  /\ [](found.kind = "Environment" =>
          /\ ~DCalled("remove_dir_all")
          /\ ~DCalled("create_venv")
          /\ ~workspace.venv.fresh
          /\ dpc = "done" =>
               /\ dresult.status = "Ok"
               /\ dresult.environment = workspace.venv
               /\ dresult.environment.version = found.version)
  /\ [][found.kind = "Environment" => workspace' = workspace]_vars

\* get_or_init_environment has returned the environment discovery found.
C15_Witness ==
  /\ dpc = "done"
  /\ found.kind = "Environment"
  /\ dresult.status = "Ok"

\* The position of the first occurrence of c in dcalls, 0 if there is none.
FirstCall(c) ==
  IF DCalled(c) THEN CHOOSE i \in 1..Len(dcalls) :
                       dcalls[i] = c /\ \A j \in 1..(i - 1) : dcalls[j] # c
  ELSE 0

\* C16: with a bare Interpreter, the directory is removed before the environment is
\* created from that interpreter, with no prompt and no system site-packages; a
\* 'not found' removal error is passed over and creation goes on; any other removal
\* error is returned and nothing is created.
C16_RemoveThenCreate ==
  /\ DCalled("create_venv") =>
       /\ found.kind = "Interpreter"
       /\ DCalled("remove_dir_all")
       /\ FirstCall("remove_dir_all") < FirstCall("create_venv")
  /\ (dpc = "done" /\ found.kind = "Interpreter" /\ dresult.status = "Ok") =>
       /\ dresult.environment = [state |-> "ok", version |-> found.version,
                                 prompt |-> "None", system_site_packages |-> FALSE,
                                 fresh |-> TRUE]
       /\ workspace.venv = dresult.environment
  /\ DCalled("remove_dir_all: NotFound") =>
       /\ dpc = "create" \/ DCalled("create_venv")
       /\ dresult.error # "Io"
  /\ DCalled("remove_dir_all: other error") =>
       /\ dpc = "done"
       /\ dresult.status = "Err" /\ dresult.error = "Io"
       /\ ~DCalled("create_venv")
       /\ ~workspace.venv.fresh

\* Nothing was at the path, and the environment was created.
C16_Witness ==
  /\ DCalled("remove_dir_all: NotFound")
  /\ dpc = "done"
  /\ dresult.status = "Ok"
  /\ dresult.environment.fresh

(***************************************************************************)
(* Properties of the tool command.                                          *)
(***************************************************************************)

\* run has parsed the target of a command that is a UTF-8 string.
TargetParsed == RCalled("parse_target") /\ command.utf8

\* The positions of '@' in the target.
AtPositions == {i \in 1..Len(command.target) : command.target[i] = "@"}

\* The text before and after the first '@' of a target that has one.
BeforeAt ==
  SubSeq(command.target, 1, (CHOOSE i \in AtPositions : \A j \in AtPositions : i <= j) - 1)
AfterAt ==
  SubSeq(command.target, (CHOOSE i \in AtPositions : \A j \in AtPositions : i <= j) + 1,
         Len(command.target))

\* C17: a target name@version with a valid package name and a valid version gives
\* the executable name and the requirement name==version, the version written in its
\* normal form; "t@1" gives executable t and requirement t==1.
C17_TaggedTargetSplit ==
  TargetParsed =>
    /\ \A i \in 1..Len(command.target) :
         LET name == SubSeq(command.target, 1, i - 1)
             version == SubSeq(command.target, i + 1, Len(command.target))
         IN (command.target[i] = "@" /\ ValidPackageName(name) /\ ValidVersion(version)) =>
              /\ executable = name
              /\ name = BeforeAt
              /\ requirement = name \o <<"=", "=">> \o VersionDisplay(version)
    /\ command.target = <<"t", "@", "1">> =>
         executable = <<"t">> /\ requirement = <<"t", "=", "=", "1">>

\* "t@1" was split into the executable t and the requirement t==1.
C17_Witness ==
  /\ TargetParsed
  /\ command.target = <<"t", "@", "1">>
  /\ executable = <<"t">>
  /\ requirement = <<"t", "=", "=", "1">>

\* One of the fallback cases: no '@', nothing after the first '@', no valid package
\* name before it, or no valid version after it.
FallbackCase ==
  \/ AtPositions = {}
  \/ AfterAt = <<>>
  \/ ~ValidPackageName(BeforeAt)
  \/ ~ValidVersion(AfterAt)

\* C18: in every fallback case the whole target is both the command and the
\* requirement, and no error is returned for it.
C18_FallbackKeepsTarget ==
  (TargetParsed /\ FallbackCase) =>
    /\ executable = command.target
    /\ requirement = command.target
    /\ rresult.error # "Tool command could not be parsed as UTF-8 string"
    /\ rpc # "target"

\* A target with a package name and an invalid version was kept whole.
C18_Witness ==
  /\ TargetParsed
  /\ command.target = <<"t", "@", "t">>
  /\ executable = command.target
  /\ requirement = command.target

\* C19: a spawn failure 'not found' leads to the entry-point lookup: if it succeeds
\* the entry points are reported and run returns Ok(Failure), if it fails the spawn
\* error is returned; a spawn failure of another kind is returned as an error
\* without lookup or report.
C19_NotFoundReportsEntrypoints ==
  /\ (RCalled("spawn: NotFound") /\ rpc = "done") =>
       /\ RCalled("get_entrypoints")
       /\ IF RCalled("get_entrypoints: error")
          THEN /\ rresult = RunErr("Failed to spawn")
               /\ ~RCalled("The executable was not found")
          ELSE /\ rresult = RunOk("Failure")
               /\ RCalled("The executable was not found")
  /\ RCalled("spawn: other") =>
       /\ rpc = "done"
       /\ rresult = RunErr("Failed to spawn")
       /\ ~RCalled("get_entrypoints")
       /\ ~RCalled("The executable was not found")
  /\ RCalled("get_entrypoints") => RCalled("spawn: NotFound")

\* The executable was not found, its package's entry points were listed, and run
\* returned Failure.
C19_Witness ==
  /\ RCalled("spawn: NotFound")
  /\ RCalled("The following executables are provided")
  /\ rresult = RunOk("Failure")

\* C20: once the child was spawned and waited for, run returns Success if it exited
\* successfully and Failure for every non-zero or signal exit.
C20_ExitStatusMirrorsChild ==
  (rpc = "done" /\ child \in ChildExits) =>
    /\ rresult.status = "Ok"
    /\ child = "success" => rresult.exit = "Success"
    /\ child \in {"nonzero", "signal"} => rresult.exit = "Failure"

\* A child that was killed by a signal gave Failure.
C20_Witness ==
  /\ rpc = "done"
  /\ child = "signal"
  /\ rresult = RunOk("Failure")

(***************************************************************************)
(* Properties of the launch of the child.                                   *)
(***************************************************************************)

\* The Command is complete: the spawn is about to be attempted, or was.
AtSpawn == lpc = "spawn" \/ spawned # "none"

\* C21: the child run launches gets a PATH whose entries are the environment's scripts
\* directory followed by the entries of the inherited PATH in their order, and a
\* PYTHONPATH whose entries are the environment's site-packages directories followed by
\* the entries of the inherited PYTHONPATH in their order; when the inherited variable
\* is unset the value is just the environment's directories.
C21_ChildSearchPaths ==
  AtSpawn =>
    /\ process_env.PATH.some
    /\ process_env.PYTHONPATH.some
    /\ split_paths(process_env.PATH.value)
         = <<tool_environment.scripts>>
             \o (IF environ.PATH.some THEN split_paths(environ.PATH.value) ELSE <<>>)
    /\ split_paths(process_env.PYTHONPATH.value)
         = tool_environment.site_packages
             \o (IF environ.PYTHONPATH.some THEN split_paths(environ.PYTHONPATH.value)
                 ELSE <<>>)
    /\ ~environ.PATH.some => process_env.PATH.value = tool_environment.scripts
    /\ ~environ.PYTHONPATH.some
         => process_env.PYTHONPATH.value = Joined(tool_environment.site_packages)

\* A child was spawned with two site-packages directories, an inherited PATH of two
\* different entries and no inherited PYTHONPATH.
C21_Witness ==
  /\ spawned = "Ok"
  /\ environ.PATH = [some |-> TRUE, value |-> <<"a", "a", ":">>]
  /\ ~environ.PYTHONPATH.some
  /\ Len(tool_environment.site_packages) = 2
  /\ process_env.PATH.value = <<"s", ":", "a", "a", ":">>
  /\ process_env.PYTHONPATH.value = <<"p", ":", "q">>

\* matching_packages named the package among the providers of the executable.
Provides(p) == \E i \in 1..Len(matching.packages) : matching.packages[i] = p

\* C22: before the child is spawned run has checked which installed packages provide
\* the executable: when the from package is among them there is no warning; when it is
\* not and exactly one package provides the executable, one suggestion names that
\* package and the invocation `--from <package> <executable>`; when several provide it,
\* all of them are listed; and whatever the check finds, the next step is the spawn.
C22_ProviderWarning ==
  /\ [](AtSpawn => matching # NoMatching)
  /\ [](AtSpawn /\ matching.status = "Ok" /\ Provides(LaunchFrom) => warnings = <<>>)
  /\ [](AtSpawn /\ matching.status = "Ok" /\ ~Provides(LaunchFrom)
           /\ Len(matching.packages) = 1
         => /\ Len(warnings) = 1
            /\ warnings[1].providers = matching.packages
            /\ warnings[1].suggested_command
                 = ToolRunCommandDisplay(invocation)
                     \o <<"--from", matching.packages[1], LaunchExecutable>>)
  /\ [](AtSpawn /\ matching.status = "Ok" /\ ~Provides(LaunchFrom)
           /\ Len(matching.packages) > 1
         => /\ Len(warnings) = 1
            /\ warnings[1].providers = matching.packages)
  /\ [][lpc = "warn" => lpc' = "spawn" /\ lresult' = "none"]_vars
  /\ [][lpc = "spawn" => spawned' # "none"]_vars

\* The child was spawned after a suggestion that names the one dependency that
\* provides the executable.
C22_Witness ==
  /\ spawned = "Ok"
  /\ matching = [status |-> "Ok", packages |-> <<"isort">>]
  /\ invocation = "ToolRun"
  /\ Len(warnings) = 1
  /\ warnings[1].suggested_command = <<"uv", "tool", "run", "--from", "isort", "blackd">>

(***************************************************************************)
(* Properties of the core as a whole.                                       *)
(***************************************************************************)

\* C23: resolve_environment calls the resolver with an empty installed-package source
\* and the no-op reinstall and upgrade policies, whatever upgrade policy its caller's
\* settings carry; update_environment calls it with the SitePackages snapshot of the
\* environment, which is what the environment holds at that moment, and with the
\* caller's reinstall and upgrade policies.
C23_ResolverCallShapes ==
  /\ op = "resolve" /\ Called("resolve")
       => /\ resolver_call.installed_packages = EmptyInstalledPackages
          /\ resolver_call.reinstall = "None"
          /\ resolver_call.upgrade = "None"
  /\ op = "update" /\ Called("resolve")
       => /\ resolver_call.installed_packages = site_packages
          /\ resolver_call.reinstall = settings.reinstall
          /\ resolver_call.upgrade = settings.upgrade
  /\ op = "update" /\ pc = "install" => resolver_call.installed_packages = installed
  /\ ~Called("resolve") => resolver_call = NoResolverCall

\* resolve_environment returned a resolution for a caller that asked for upgrades.
C23_Witness ==
  /\ op = "resolve"
  /\ settings.upgrade = "All"
  /\ result = "Ok"
  /\ resolver_call.upgrade = "None"

\* No call of the log is made twice.
NoRepeats(log) == \A i, j \in 1..Len(log) : i # j => log[i] # log[j]
LastCall(log) == IF log = <<>> THEN "none" ELSE log[Len(log)]

\* The collaborator call whose error each error result is.
FailedCall ==
  [Err_site_packages |-> "site_packages", Err_satisfies |-> "satisfies",
   Err_flat_index |-> "flat_index", Err_resolve |-> "resolve",
   Err_install |-> "install", Err_diagnose |-> "diagnose"]
ToolFailedCall ==
  [Err_python |-> "find_or_fetch", Err_resolve_from |-> "resolve_from",
   Err_resolve_with |-> "resolve_with", Err_installed_tools |-> "installed_tools",
   Err_get_environment |-> "get_environment", Err_site_packages |-> "site_packages",
   Err_cached |-> "cached_get_or_create"]

\* The failures get_or_init_environment logs after discovery: the removal error
\* other than 'not found', and the error of create_venv.
DiscoverFailures == {"remove_dir_all: other error", "create_venv: error"}

\* C25: there are no retries in the core. In update_environment, sync_environment and
\* resolve_environment, in get_or_create_environment, and in discover and
\* get_or_init_environment, no collaborator is called twice in one operation; an
\* error result is the error of the last call made, the operation has ended with it,
\* and no call follows; what is passed over is only the failed satisfaction check of
\* the tool-reuse check, the missing venv and the venv whose interpreter is gone.
C25_NoRetries ==
  /\ [](NoRepeats(calls))
  /\ [](result \in DOMAIN FailedCall
          => pc = "done" /\ LastCall(calls) = FailedCall[result])
  /\ [](result = "Err_tags" => pc = "done")
  /\ [][pc = "done" => calls' = <<>>]_vars
  /\ [](\A p \in Procs :
          /\ NoRepeats(tcalls[p])
          /\ tresult[p].status \in DOMAIN ToolFailedCall
               => /\ tpc[p] = "done"
                  /\ LastCall(tcalls[p]) = ToolFailedCall[tresult[p].status])
  /\ [][\A p \in Procs : tpc[p] = "done" => tcalls'[p] \in {tcalls[p], <<>>}]_vars
  /\ [](NoRepeats(dcalls))
  /\ [](found.kind = "Err"
          => /\ dpc \in {"found", "done"}
             /\ dpc = "done" => dresult.status = "Err" /\ dresult.error = found.error)
  /\ [](\A c \in DiscoverFailures :
          DCalled(c) => dpc = "done" /\ dresult.status = "Err" /\ LastCall(dcalls) = c)
  /\ [][found.kind = "Err" \/ dresult.status = "Err" => dcalls' = dcalls]_vars

\* The flat-index fetch of an update failed: the update ended with that error, after
\* one fetch.
C25_Witness ==
  /\ op = "update"
  /\ result = "Err_flat_index"
  /\ calls = <<"site_packages", "flat_index">>

(***************************************************************************)
(* Further properties of interpreter discovery.                             *)
(***************************************************************************)

\* discover has returned Ok: an existing Environment or a bare Interpreter.
DiscoverSucceeded == found.kind \in {"Environment", "Interpreter"}

\* C24 as stated: every successful discover has emitted the status line that names
\* the chosen interpreter, with an existing environment as with a fetched interpreter.
C24_StatusLineAlways == DiscoverSucceeded => DCalled("Using Python")

\* C24: the status line naming the interpreter is emitted right after find_or_fetch
\* gave one, so every discover that returns a bare Interpreter has emitted it; a
\* discover that returns the existing environment has emitted no status line.
C24_StatusLineOnFetch ==
  /\ found.kind = "Interpreter" => DCalled("Using Python") /\ dinterpreter = found.version
  /\ found.kind = "Environment" => ~DCalled("Using Python") /\ ~DCalled("find_or_fetch")
  /\ DCalled("Using Python") => FirstCall("find_or_fetch") < FirstCall("Using Python")

\* discover returned a fetched interpreter after it passed an environment whose
\* interpreter did not do, and the status line was emitted.
C24_Witness ==
  /\ found.kind = "Interpreter"
  /\ workspace.venv.state = "ok"
  /\ DCalled("find_environment")
  /\ DCalled("Using Python")

(***************************************************************************)
(* Further properties of the project pipeline.                              *)
(***************************************************************************)

\* C26: a sync_environment whose installer stopped part-way leaves what it had applied
\* (no rollback); the sync_environment that follows with the same Resolution R starts
\* from a snapshot of the environment as the interrupted run left it, and when it
\* returns Ok the installed set equals R.
C26_InterruptedSyncRecoverable ==
  /\ [][pc = "installing" /\ result' = "Err_install" => installed' = installed]_vars
  /\ [][pc = "idle" /\ op' = "sync" /\ pc' = "tags" => site_packages' = installed]_vars
  /\ [](op = "sync" /\ retry # "none" /\ site_packages # NoSnapshot /\ ~Called("install")
          => site_packages = installed)
  /\ [](op = "sync" /\ retry # "none" /\ pc = "done" /\ result = "Ok"
          => installed = resolution)

\* The interrupted run had modified a package and left another of its modifications
\* undone; the run that followed completed them and returned Ok.
C26_Witness ==
  /\ op = "sync"
  /\ retry = "partial"
  /\ pc = "done" /\ result = "Ok"
  /\ site_packages # resolution
  /\ modified # {}
  /\ installed = resolution

\* C27: get_or_init_environment removes the venv directory only after discover has
\* returned a bare Interpreter. When discover fails, by a probe error, by a failed
\* find-or-fetch or by RequestedPythonIncompatibility after the fetch, the workspace's
\* venv directory stays as it was, nothing is created, and the call returns the error.
C27_FailedDiscoveryTouchesNothing ==
  /\ [](DCalled("remove_dir_all") => found.kind = "Interpreter")
  /\ [](found.kind = "Err"
          => /\ ~DCalled("remove_dir_all")
             /\ ~DCalled("create_venv")
             /\ ~workspace.venv.fresh
             /\ dpc = "done" => dresult.status = "Err" /\ dresult.environment = NoVenv)
  /\ [][found'.kind = "Err" => workspace' = workspace]_vars
  /\ [][workspace' # workspace => found.kind = "Interpreter"]_vars

\* The fetched interpreter did not meet the project's Requires-Python: the call
\* returned the error and the venv that was there is still there.
C27_Witness ==
  /\ found.kind = "Err"
  /\ found.error = "RequestedPythonIncompatibility"
  /\ DCalled("find_or_fetch")
  /\ dpc = "done"
  /\ dresult.status = "Err"
  /\ workspace.venv.state = "ok"

(***************************************************************************)
(* Further properties of the tool-run pipeline.                             *)
(***************************************************************************)

\* A step in which invocation p calls CachedEnvironment::get_or_create.
StartsCached(p) ==
  /\ ~TCalled(p, "cached_get_or_create")
  /\ \E i \in 1..Len(tcalls'[p]) : tcalls'[p][i] = "cached_get_or_create"

\* C28: an invocation takes the installed-tools lock only after its from and with
\* requirements were resolved, and holds it only between acquire_lock and the end of
\* the registry lookup and satisfaction check; when CachedEnvironment::get_or_create
\* is called, and from then on, the invocation does not hold the lock; and no step of
\* a tool run changes the registry.
C28_LockOnlyAroundReuseCheck ==
  /\ [](\A p \in Procs :
          lock = p => /\ TCalled(p, "resolve_from")
                      /\ TCalled(p, "resolve_with")
                      /\ LastCall(tcalls[p]) \in {"acquire_lock", "get_environment"})
  /\ [](\A p \in Procs :
          (tpc[p] = "cached" \/ TCalled(p, "cached_get_or_create")) => lock # p)
  /\ [][\A p \in Procs : StartsCached(p) => lock # p /\ lock' # p]_vars
  /\ [][registry' = registry]_vars

\* One invocation builds its cached environment while another holds the lock.
C28_Witness ==
  \E p, q \in Procs :
    /\ p # q
    /\ TCalled(p, "acquire_lock")
    /\ TCalled(p, "cached_get_or_create")
    /\ lock = q

\* A step in which the satisfaction check of invocation p returns an error.
CheckFails(p) ==
  /\ ~TCalled(p, "satisfies_err")
  /\ \E i \in 1..Len(tcalls'[p]) : tcalls'[p][i] = "satisfies_err"

\* C29: in the tool-reuse check a satisfaction check that fails or returns Unsatisfied
\* is not fatal: the invocation goes on to CachedEnvironment::get_or_create, and only
\* a Fresh check returns the registry's environment; an error of the registry lookup
\* or of reading the existing environment's SitePackages ends the invocation, before
\* any satisfaction check or cached environment. In update_environment an error of
\* the satisfaction check ends the update with that error: no flat-index fetch, no
\* resolver, no installer, and the installed set stays what it was.
C29_ReuseCheckNeverFatal ==
  /\ [][\A p \in Procs : CheckFails(p) => tpc'[p] = "cached" /\ tresult'[p] = NoResult]_vars
  /\ [](\A p \in Procs :
          TCalled(p, "satisfies") /\ tpc[p] = "done"
            => \/ /\ tresult[p].source = "registry"
                  /\ ~TCalled(p, "satisfies_err")
                  /\ Satisfies(existing[p].installed, RequirementSet(p)) = "Fresh"
               \/ /\ tresult[p].source # "registry"
                  /\ TCalled(p, "cached_get_or_create")
                  /\ tresult[p].status \in {"Ok", "Err_cached"})
  /\ [](\A p \in Procs :
          tresult[p].status \in {"Err_get_environment", "Err_site_packages"}
            => /\ tpc[p] = "done"
               /\ ~TCalled(p, "satisfies")
               /\ ~TCalled(p, "cached_get_or_create"))
  /\ [](check = "Err"
          => /\ op = "update" /\ pc = "done" /\ result = "Err_satisfies"
             /\ ~Called("flat_index") /\ ~Called("resolve") /\ ~Called("install")
             /\ installed = site_packages)

\* The satisfaction check of the reuse check failed, and the invocation was served
\* by CachedEnvironment::get_or_create.
C29_Witness ==
  \E p \in Procs :
    /\ TCalled(p, "satisfies_err")
    /\ tpc[p] = "done"
    /\ tresult[p].status = "Ok"
    /\ tresult[p].source = "cache"

\* Further properties of update_environment.

\* The collaborators of update_environment, in the order of its body.
UpdateOrder == <<"site_packages", "satisfies", "flat_index", "resolve", "install", "diagnose">>

Rank(c) == CHOOSE i \in 1..Len(UpdateOrder) : UpdateOrder[i] = c

\* C30: update_environment calls its collaborators in the order satisfaction check,
\* flat-index fetch, resolve, install, diagnostics, each at most once and none
\* before the one it follows has returned; the SitePackages snapshot taken at entry
\* is the one the resolver and the installer receive and it does not change during
\* the call; when the flat-index fetch or the resolver fails the installer is not
\* called and the installed set is the snapshot; the diagnostics are emitted only
\* after the installer has applied its whole plan.
C30_UpdateStepOrder ==
  /\ [](op = "update" =>
          /\ \A i \in 1..Len(calls) : \E k \in 1..Len(UpdateOrder) : calls[i] = UpdateOrder[k]
          /\ \A i, j \in 1..Len(calls) : i < j => Rank(calls[i]) < Rank(calls[j])
          /\ Called("flat_index") /\ SatisfactionCheckApplies(spec, settings)
               => Called("satisfies") /\ check = "Unsatisfied"
          /\ Called("resolve") => Called("flat_index")
          /\ Called("install") => Called("resolve") /\ resolution # NoResolution
          /\ Called("diagnose") => Called("install") /\ pending = {} /\ pc \in {"diagnose", "done"}
          /\ Called("resolve") => resolver_call.installed_packages = site_packages
          /\ ~Called("install") /\ result # "Err_site_packages" => installed = site_packages
          /\ result \in {"Err_flat_index", "Err_resolve"}
               => /\ pc = "done"
                  /\ ~Called("install") /\ ~Called("diagnose")
                  /\ modified = {}
                  /\ installed = site_packages)
  /\ [][op = "update" /\ op' = "update" => site_packages' = site_packages]_vars

\* An update ran every step and the installer changed the environment.
C30_Witness ==
  /\ op = "update"
  /\ result = "Ok"
  /\ calls = UpdateOrder
  /\ installed # site_packages

\* Further properties of run.

\* run has gone past the choice of the executable and of the from requirement.
TargetSettled == rpc \notin {"idle", "target"}

\* C31: run parses the target for a name@version suffix only when no --from was
\* given. With --from the executable is the target string as it was written, '@'
\* included, and the from requirement is the string given; parse_target is not
\* called. Without a target run ends with "No tool command provided" and has called
\* neither parse_target nor get_or_create_environment (which does the interpreter
\* discovery, the resolution, the registry lock and the creation of the environment),
\* and no child was spawned.
C31_FromSkipsParsing ==
  /\ RCalled("parse_target") => command.present /\ ~from_arg.some
  /\ TargetSettled /\ command.present /\ ~from_arg.some => RCalled("parse_target")
  /\ TargetSettled /\ command.present /\ from_arg.some =>
       /\ executable = command.target
       /\ requirement = from_arg.value
       /\ ~RCalled("parse_target")
  /\ TargetSettled /\ ~command.present =>
       /\ rpc = "done"
       /\ rresult = RunErr("No tool command provided")
       /\ rcalls = <<>>
       /\ child = "none"
  /\ rresult.error = "No tool command provided" => ~command.present

\* "t@1" was run with --from t: the child is t@1, the requirement t.
C31_Witness ==
  /\ from_arg = [some |-> TRUE, value |-> <<"t">>]
  /\ command.target = <<"t", "@", "1">>
  /\ executable = <<"t", "@", "1">>
  /\ requirement = <<"t">>
  /\ RCalled("spawn")
  /\ rresult.status = "Ok"

====
